---- MODULE Spec2Model ----
(***************************************************************************)
(* A model of the datastore of proxmox-backup: the chunk store with its    *)
(* atime based mark-and-sweep garbage collection, the snapshot directory   *)
(* operations of DataStore (pbs-datastore/src/datastore.rs) and the server *)
(* side of a backup session (src/api2/backup.rs).                          *)
(*                                                                         *)
(* ChunkStore (chunk_store.rs) and BackupEnvironment (environment.rs) are  *)
(* not part of the sources at hand; the operators that stand for them      *)
(* follow the written specification and say so in their comment.           *)
(***************************************************************************)
EXTENDS Integers, FiniteSets, Sequences, TLC

\* ------------------------------------------------------------------ bounds

MaxBackupTime == 2      \* backup_time of a snapshot is 1..MaxBackupTime
MaxSmallTicks == 1      \* how often the clock advances by one second
MaxBigTicks == 1        \* how often the clock advances by SAFE_MARGIN seconds
MaxForced == 2          \* how often set_owner is called with force = true
MaxUpdates == 2         \* how often one thread calls update_manifest
MaxReads == 2           \* how often the reader calls load_manifest
MaxGeneration == 2      \* the datastore generation is 1..MaxGeneration
MaxInstances == 3       \* how many DataStore instances are opened
MaxList == 1            \* the length of a digest-list of an append request
MaxEntries == 2         \* how many chunks are appended to one index writer

\* 24 hours + 5 minutes, in seconds (ChunkStore::sweep_unused_chunks)
SAFE_MARGIN == 86700

Digests == {1, 2}
BackupTimes == 1..MaxBackupTime
Requests == {"r1", "r2"}
GcThreads == {"g1", "g2"}
Lockers == Requests \cup {"reader"}

NoChunk == -1           \* atime of a chunk file that does not exist
NoLock == -1            \* lock_time of a shared guard that is not held
NoHolder == "none"
StartTime == SAFE_MARGIN + 1

VARIABLES
    now,            \* proxmox_time::epoch_i64()
    chunks,         \* .chunks/: digest -> atime of the chunk file, or NoChunk
    snaps,          \* <type>/<id>/<time>/: the snapshot directories of the group
    snap_lock,      \* flock on a snapshot directory: backup_time -> holder
    shared_locks,   \* chunk store process locker: holder -> lock_time of its shared guard
    exclusive,      \* chunk store process locker: the exclusive guard is held
    gc_mutex,       \* DataStore::gc_mutex: the thread that holds it
    last_gc_status, \* DataStore::last_gc_status
    gc,             \* one record per thread that calls garbage_collection
    sess,           \* one record per upgrade request / backup session
    group_exists,   \* <type>/<id>/: the group directory exists
    owner,          \* <type>/<id>/owner: the Authid in the owner file, or NoOwner
    group_lock,     \* flock on the group directory: its holder
    callers,        \* one record per thread that calls create_locked_backup_group
    forced,         \* history: how often set_owner was called with force = true
    refused,        \* history: the (backup_time, force) of the remove_backup_dir
                    \* calls that bailed out on a protected snapshot
    group_ret,      \* what the call of remove_backup_group in progress returns
    manifest_file,  \* index.json.blob of a snapshot: the mutators applied to it
    manifest_lock,  \* the manifest lock file of a snapshot: its holder
    updaters,       \* one record per thread that calls update_manifest
    mreader,        \* a thread that calls load_manifest, and what was committed
    datastore_map,  \* DATASTORE_MAP: the entry of the one configured datastore
    datastore_generation,   \* ConfigVersionCache::datastore_generation()
    instances,      \* how many DataStore instances open_with_path has made
    lookups,        \* one record per thread that calls lookup_datastore
    env,            \* BackupEnvironment: the shared state of one backup session
    cs,             \* one chunk file of the store and the threads that insert it
    bad,            \* the files <digest>.<i>.bad next to the chunks: their atime
    run,            \* one garbage collection task in the steps of its loops
    ord,            \* a call of get_chunks_in_order: its inputs and what it returned
    dl,             \* the index files of the last backup and what a download returned
    api,            \* the last call of update_protection or remove_backup_dir
    igc,            \* gc_mutex of every DataStore instance and the threads that try it
    dir,            \* the entries of one snapshot directory and a call of cleanup_backup_dir
    ap,             \* one append request: the session it meets, its lists, its result
    call,           \* one record per thread that calls update_protection or remove_backup_dir
    lk              \* the locks of the datastore, their holders, and the calls that take them

vars == <<now, chunks, snaps, snap_lock, shared_locks, exclusive, gc_mutex,
          last_gc_status, gc, sess, group_exists, owner, group_lock, callers,
          forced, refused, group_ret, manifest_file, manifest_lock, updaters,
          mreader, datastore_map, datastore_generation, instances, lookups, env, cs, bad, run, ord, dl, api, igc, dir, ap, call, lk>>

cacheVars == <<datastore_map, datastore_generation, instances, lookups>>

\* the state of the operations that are looked at on their own
moreVars == <<dl, api, igc, dir, ap, call, lk>>

auxVars == <<cs, bad, run, ord, moreVars>>

\* the state of the store, the sessions and the caches
mainVars == <<now, chunks, snaps, snap_lock, shared_locks, exclusive, gc_mutex,
              last_gc_status, gc, sess, group_exists, owner, group_lock, callers,
              forced, refused, group_ret, manifest_file, manifest_lock, updaters,
              mreader, datastore_map, datastore_generation, instances, lookups, env>>

manifestVars == <<manifest_file, manifest_lock, updaters, mreader>>

\* the state outside the chunk store, the snapshots, the sessions and the owner
extVars == <<group_ret, manifestVars, cacheVars, env, auxVars>>

ownerVars == <<group_exists, owner, group_lock, callers, forced>>

groupVars == <<ownerVars, refused>>

gcVars == <<exclusive, gc_mutex, last_gc_status, gc>>

\* ------------------------------------------------------------------ helpers

Min2(a, b) == IF a <= b THEN a ELSE b

SetMin(S) == CHOOSE x \in S : \A y \in S : x <= y

SetMax(S) == CHOOSE x \in S : \A y \in S : y <= x

\* a snapshot directory that does not exist
NoDir == [exists |-> FALSE, has_index |-> FALSE, index |-> {},
          manifest |-> FALSE, protected |-> FALSE]

\* a snapshot directory right after mkdir
EmptyDir == [exists |-> TRUE, has_index |-> FALSE, index |-> {},
             manifest |-> FALSE, protected |-> FALSE]

\* GarbageCollectionStatus::default(), of its counters removed_chunks
GcStatusDefault == [upid |-> "none", removed_chunks |-> 0]

GcIdle == [pc |-> "idle", phase1_start_time |-> 0, oldest_writer |-> 0,
           image_list |-> {}, sweep_pos |-> 0, status |-> GcStatusDefault,
           removed |-> {}, clean |-> FALSE, saw |-> {}, met |-> {}, err |-> "none"]

\* history: a garbage_collection was invoked while session r held its shared
\* chunk store lock
GcSeen(r) == \E g \in GcThreads : r \in gc[g].saw

SessInit(t) == [pc |-> "init", time |-> t, last_backup |-> 0, is_new |-> FALSE,
                known_chunks |-> {}, wstate |-> "none", wdigests |-> {},
                ins_after_gc |-> {}, missing_at_finish |-> {}]

\* ------------------------------------------------------------------ chunk store
\* ChunkStore is modelled from the written specification (section 4.1).

\* the chunk files that exist
ChunkFiles == {d \in Digests : chunks[d] # NoChunk}

\* cond_touch_chunk(digest, false): set the atime if the file exists
cond_touch_chunk(ch, d, t) == IF ch[d] = NoChunk THEN ch ELSE [ch EXCEPT ![d] = t]

\* ChunkStore::insert_chunk: an existing file is touched, a missing one is
\* written (temp file, fsync, rename); either way its atime is the current time
ChunkStore_insert_chunk(ch, d, t) ==
    IF ch[d] # NoChunk THEN cond_touch_chunk(ch, d, t) ELSE [ch EXCEPT ![d] = t]

\* the shared guards that are held
SharedHeld == {h \in Lockers : shared_locks[h] # NoLock}

\* ChunkStore::oldest_writer() -> Option<i64>, None as NoLock
oldest_writer ==
    IF SharedHeld = {} THEN NoLock ELSE SetMin({shared_locks[h] : h \in SharedHeld})

\* a lock that is given whoever holds it
try_exclusive_lock_always == TRUE

\* ChunkStore::try_exclusive_lock succeeds
try_exclusive_lock == ~exclusive

\* the atime cutoff of sweep_unused_chunks(oldest_writer, phase1_start, ..)
sweep_min_atime(ow, phase1_start) == Min2(ow, phase1_start) - SAFE_MARGIN

\* sweep_unused_chunks unlinks a file with this atime
sweep_removes(atime, ow, phase1_start) == atime < sweep_min_atime(ow, phase1_start)

\* ------------------------------------------------------------------ DataStore

\* insert_chunk that leaves a chunk file that exists alone
insert_chunk_no_touch(ch, d, t) ==
    IF ch[d] # NoChunk THEN ch ELSE ChunkStore_insert_chunk(ch, d, t)

\* DataStore::insert_chunk delegates to the chunk store
insert_chunk(ch, d, t) == ChunkStore_insert_chunk(ch, d, t)

\* DataStore::list_images: the index files outside hidden directories
list_images == {t \in BackupTimes : snaps[t].exists /\ snaps[t].has_index}

\* the digests referenced by the index files that exist
Referenced == UNION {snaps[t].index : t \in list_images}

\* index_mark_used_chunks that touches nothing
index_mark_used_chunks_skip(ch, index, t) == ch

\* DataStore::index_mark_used_chunks: cond_touch_chunk(digest, false) for every
\* digest of the index; a missing chunk is only warned about
index_mark_used_chunks(ch, index, t) ==
    [d \in Digests |-> IF d \in index THEN cond_touch_chunk(ch, d, t)[d] ELSE ch[d]]

\* garbage_collection that does not look at gc_mutex
gc_try_lock_always == TRUE

\* garbage_collection: self.gc_mutex.try_lock() is Ok
gc_try_lock == gc_mutex = NoHolder

\* garbage_collection that takes phase1_start_time whatever the writers
gc_oldest_writer_ignored(phase1_start_time) == phase1_start_time

\* garbage_collection: self.chunk_store.oldest_writer().unwrap_or(phase1_start_time)
gc_oldest_writer(phase1_start_time) ==
    IF oldest_writer = NoLock THEN phase1_start_time ELSE oldest_writer

\* the sessions that hold their shared guard
Writers == {r \in Requests : shared_locks[r] # NoLock}

\* garbage_collection up to the start of phase 1: gc_mutex, exclusive lock,
\* phase1_start_time and oldest_writer
garbage_collection_start(g) ==
    /\ gc[g].pc = "idle"
    /\ gc_try_lock
    /\ IF try_exclusive_lock
       THEN /\ gc_mutex' = g
            /\ exclusive' = TRUE
            /\ gc' = [gc EXCEPT ![g] = [GcIdle EXCEPT
                        !.pc = "list",
                        !.status = [GcStatusDefault EXCEPT !.upid = g],
                        !.phase1_start_time = now,
                        !.oldest_writer = gc_oldest_writer(now),
                        !.clean = (Writers = {}),
                        !.saw = Writers]]
       ELSE /\ gc' = [gc EXCEPT ![g].err = "exclusive lock"]
            /\ UNCHANGED <<gc_mutex, exclusive>>
    /\ UNCHANGED <<now, chunks, snaps, snap_lock, shared_locks, last_gc_status, sess,
                   groupVars, extVars>>

\* garbage_collection when gc_mutex is held: bail!("Start GC failed - (already running/locked)")
garbage_collection_refused(g) ==
    /\ gc[g].pc = "idle"
    /\ ~gc_try_lock
    /\ gc' = [gc EXCEPT ![g].err = "already running"]
    /\ UNCHANGED <<now, chunks, snaps, snap_lock, shared_locks, exclusive, gc_mutex,
                   last_gc_status, sess, groupVars, extVars>>

\* mark_used_chunks: let image_list = self.list_images()?
mark_used_chunks_list(g) ==
    /\ gc[g].pc = "list"
    /\ gc' = [gc EXCEPT ![g].image_list = list_images,
                        ![g].pc = IF list_images = {} THEN "sweep" ELSE "mark",
                        ![g].sweep_pos = 1]
    /\ UNCHANGED <<now, chunks, snaps, snap_lock, shared_locks, exclusive, gc_mutex,
                   last_gc_status, sess, groupVars, extVars>>

\* mark_used_chunks: one round of the loop over image_list; a vanished index
\* file (NotFound) is ignored
mark_used_chunks_image(g) ==
    /\ gc[g].pc = "mark"
    /\ LET img == SetMin(gc[g].image_list)
           rest == gc[g].image_list \ {img}
           found == snaps[img].exists /\ snaps[img].has_index
       IN /\ chunks' = IF found
                       THEN index_mark_used_chunks(chunks, snaps[img].index, now)
                       ELSE chunks
          /\ gc' = [gc EXCEPT
                      ![g].image_list = rest,
                      ![g].pc = IF rest = {} THEN "sweep" ELSE "mark"]
    /\ UNCHANGED <<now, snaps, snap_lock, shared_locks, exclusive, gc_mutex,
                   last_gc_status, sess, groupVars, extVars>>

\* the sweep of this run has visited every chunk
SweepDone(g) == gc[g].pc = "sweep" /\ gc[g].sweep_pos \notin Digests

\* sweep_unused_chunks: one round of the loop over the chunk files
sweep_unused_chunks_step(g) ==
    /\ gc[g].pc = "sweep"
    /\ gc[g].sweep_pos \in Digests
    /\ LET d == gc[g].sweep_pos
           rm == /\ chunks[d] # NoChunk
                 /\ sweep_removes(chunks[d], gc[g].oldest_writer,
                                  gc[g].phase1_start_time)
       IN /\ chunks' = IF rm THEN [chunks EXCEPT ![d] = NoChunk] ELSE chunks
          /\ gc' = [gc EXCEPT
                      ![g].sweep_pos = d + 1,
                      ![g].removed = IF rm THEN @ \cup {d} ELSE @,
                      \* history: the sweep came to a chunk that a session it
                      \* saw had inserted since
                      ![g].met = IF \E r \in gc[g].saw : d \in sess[r].ins_after_gc
                                 THEN @ \cup {d} ELSE @,
                      ![g].status.removed_chunks = IF rm THEN @ + 1 ELSE @]
    /\ UNCHANGED <<now, snaps, snap_lock, shared_locks, exclusive, gc_mutex,
                   last_gc_status, sess, groupVars, extVars>>

\* garbage_collection after the sweep: last_gc_status is replaced, the
\* exclusive lock and gc_mutex are dropped
garbage_collection_finish(g) ==
    /\ SweepDone(g)
    /\ last_gc_status' = gc[g].status
    /\ gc_mutex' = NoHolder
    /\ exclusive' = FALSE
    \* history: saw and met are kept until the next run
    /\ gc' = [gc EXCEPT ![g] = [GcIdle EXCEPT !.saw = gc[g].saw, !.met = gc[g].met]]
    /\ UNCHANGED <<now, chunks, snaps, snap_lock, shared_locks, sess, groupVars, extVars>>

\* ------------------------------------------------------------------ snapshots

\* BackupDir::is_protected: the .protected marker exists
is_protected(t) == snaps[t].exists /\ snaps[t].protected

\* remove_backup_dir that looks at the .protected marker only without force
remove_backup_dir_ok_unless_force(t, force) ==
    /\ snaps[t].exists
    /\ force \/ (/\ snap_lock[t] = NoHolder
                 /\ manifest_lock[t] = NoHolder
                 /\ ~is_protected(t))

\* remove_backup_dir(dir, force) returns Ok: the locks are taken unless force,
\* the snapshot is not protected, and remove_dir_all finds the directory
remove_backup_dir_ok(t, force) ==
    /\ snaps[t].exists
    /\ force \/ (snap_lock[t] = NoHolder /\ manifest_lock[t] = NoHolder)
    /\ ~is_protected(t)

\* the snapshot directories after remove_backup_dir(dir, force)
remove_backup_dir(t, force) ==
    IF remove_backup_dir_ok(t, force) THEN [snaps EXCEPT ![t] = NoDir] ELSE snaps

\* remove_backup_dir(dir, force) gets its locks and then bails out with
\* "cannot remove protected snapshot"
remove_backup_dir_protected(t, force) ==
    /\ force \/ (/\ snaps[t].exists
                 /\ snap_lock[t] = NoHolder
                 /\ manifest_lock[t] = NoHolder)
    /\ is_protected(t)

\* the history of the calls that bailed out on a protected snapshot
remove_backup_dir_log(t, force) ==
    IF remove_backup_dir_protected(t, force) THEN refused \cup {<<t, force>>}
    ELSE refused

\* a client calls remove_backup_dir(dir, false) (forget, prune)
api_remove_backup_dir(t) ==
    /\ snaps' = remove_backup_dir(t, FALSE)
    /\ refused' = remove_backup_dir_log(t, FALSE)
    /\ UNCHANGED <<now, chunks, snap_lock, shared_locks, sess, gcVars, ownerVars, extVars>>

\* update_protection(dir, protection): the snapshot lock is taken, the
\* .protected marker is created or removed (a missing marker is ignored)
update_protection(t, protection) ==
    /\ snaps[t].exists /\ snap_lock[t] = NoHolder
    /\ snaps' = [snaps EXCEPT ![t].protected = protection]
    /\ UNCHANGED <<now, chunks, snap_lock, shared_locks, sess, gcVars, groupVars, extVars>>

\* ------------------------------------------------------------------ backup session

\* BackupInfo::last_backup(..).unwrap_or(None): the latest snapshot of the
\* group, None as 0
last_backup ==
    LET ex == {t \in BackupTimes : snaps[t].exists}
    IN IF ex = {} THEN 0 ELSE SetMax(ex)

\* upgrade_to_backup_protocol: the request is not older than the last backup
backup_time_ok(time, last) == ~(last # 0 /\ time <= last)

\* upgrade_to_backup_protocol: last_backup is read and compared with backup-time
upgrade_check(r) ==
    /\ sess[r].pc = "init"
    /\ sess' = [sess EXCEPT ![r].last_backup = last_backup,
                            ![r].pc = IF backup_time_ok(sess[r].time, last_backup)
                                      THEN "mkdir" ELSE "rejected"]
    /\ UNCHANGED <<now, chunks, snaps, snap_lock, shared_locks, gcVars, groupVars, extVars>>

\* create_locked_backup_dir: std::fs::create_dir(&full_path)
upgrade_create_dir(r) ==
    /\ sess[r].pc = "mkdir"
    /\ LET t == sess[r].time
       IN IF ~group_exists
          THEN /\ sess' = [sess EXCEPT ![r].pc = "rejected"]
               /\ UNCHANGED snaps
          ELSE /\ sess' = [sess EXCEPT ![r].is_new = ~snaps[t].exists,
                                       ![r].pc = "lock"]
               /\ snaps' = IF snaps[t].exists THEN snaps
                           ELSE [snaps EXCEPT ![t] = EmptyDir]
    /\ UNCHANGED <<now, chunks, snap_lock, shared_locks, gcVars, groupVars, extVars>>

\* a lock() that does not look at the holder of the lock
lock_dir_noblock_ok_always(t) == snaps[t].exists

\* create_locked_backup_dir: lock()? succeeds
lock_dir_noblock_ok(t) == snaps[t].exists /\ snap_lock[t] = NoHolder

\* create_locked_backup_dir: lock()?, then upgrade_to_backup_protocol:
\* if !is_new { bail } and WorkerTask::spawn; the session takes its shared
\* chunk store lock and keeps it and the snapshot lock
upgrade_lock_dir(r) ==
    /\ sess[r].pc = "lock"
    /\ LET t == sess[r].time
       IN IF ~lock_dir_noblock_ok(t)
          THEN /\ sess' = [sess EXCEPT ![r].pc = "rejected"]
               /\ UNCHANGED <<snap_lock, shared_locks, gc>>
          ELSE IF sess[r].is_new
          THEN /\ snap_lock' = [snap_lock EXCEPT ![t] = r]
               /\ shared_locks' = [shared_locks EXCEPT ![r] = now]
               /\ sess' = [sess EXCEPT ![r].pc = "active"]
               \* history: a writer is concurrent with the running GC
               /\ gc' = [g \in GcThreads |-> [gc[g] EXCEPT !.clean = FALSE]]
          ELSE /\ snap_lock' = [snap_lock EXCEPT ![t] = r]
               /\ sess' = [sess EXCEPT ![r].pc = "bail"]
               /\ UNCHANGED <<shared_locks, gc>>
    /\ UNCHANGED <<now, chunks, snaps, exclusive, gc_mutex, last_gc_status,
                   groupVars, extVars>>

\* upgrade_to_backup_protocol: if !is_new { bail!(..) }; the guard that
\* create_locked_backup_dir returned is dropped
upgrade_bail(r) ==
    /\ sess[r].pc = "bail"
    /\ snap_lock' = [snap_lock EXCEPT ![sess[r].time] = NoHolder]
    /\ sess' = [sess EXCEPT ![r].pc = "rejected"]
    /\ UNCHANGED <<now, chunks, snaps, shared_locks, gcVars, groupVars, extVars>>

\* create_fixed_index: the writer is registered, its file is a temp file
create_fixed_index(r) ==
    /\ sess[r].pc = "active"
    /\ sess[r].wstate = "none"
    /\ sess' = [sess EXCEPT ![r].wstate = "open"]
    /\ UNCHANGED <<now, chunks, snaps, snap_lock, shared_locks, gcVars, groupVars, extVars>>

\* fixed_chunk_index: the digests of the previous snapshot's index that
\* env.register_chunk adds to the known chunks
previous_index_digests(last) ==
    IF last = 0 THEN {}
    ELSE IF snaps[last].exists /\ snaps[last].has_index THEN snaps[last].index
    ELSE {}

\* fixed_chunk_index: download of the previous index
fixed_chunk_index(r) ==
    /\ sess[r].pc = "active"
    /\ sess' = [sess EXCEPT ![r].known_chunks =
                    @ \cup previous_index_digests(sess[r].last_backup)]
    /\ UNCHANGED <<now, chunks, snaps, snap_lock, shared_locks, gcVars, groupVars, extVars>>

\* upload_fixed_chunk: insert_chunk, then env.register_chunk
upload_fixed_chunk(r, d) ==
    /\ sess[r].pc = "active"
    /\ chunks' = insert_chunk(chunks, d, now)
    /\ sess' = [sess EXCEPT ![r].known_chunks = @ \cup {d},
                            \* history: inserted after a GC was invoked
                            ![r].ins_after_gc =
                                IF GcSeen(r) THEN @ \cup {d} ELSE @]
    /\ UNCHANGED <<now, snaps, snap_lock, shared_locks, gcVars, groupVars, extVars>>

\* fixed_append: env.lookup_chunk(&digest) is Some
lookup_chunk(r, d) == d \in sess[r].known_chunks

\* fixed_append of one digest
fixed_append(r, d) ==
    /\ sess[r].pc = "active"
    /\ sess[r].wstate = "open"
    /\ sess' = [sess EXCEPT ![r].wdigests =
                    IF lookup_chunk(r, d) THEN @ \cup {d} ELSE @]
    /\ UNCHANGED <<now, chunks, snaps, snap_lock, shared_locks, gcVars, groupVars, extVars>>

\* close_fixed_index: the index file appears under its final name
close_fixed_index(r) ==
    /\ sess[r].pc = "active"
    /\ sess[r].wstate = "open"
    /\ sess[r].wdigests # {}
    /\ sess' = [sess EXCEPT ![r].wstate = "closed"]
    /\ snaps' = [snaps EXCEPT ![sess[r].time].has_index = TRUE,
                              ![sess[r].time].index = sess[r].wdigests]
    /\ UNCHANGED <<now, chunks, snap_lock, shared_locks, gcVars, groupVars, extVars>>

\* finish_backup: no writer is open; the manifest is written and the locks of
\* the session are released
finish_backup(r) ==
    /\ sess[r].pc = "active"
    /\ sess[r].wstate # "open"
    /\ snaps' = [snaps EXCEPT ![sess[r].time].manifest = TRUE]
    /\ snap_lock' = [snap_lock EXCEPT ![sess[r].time] = NoHolder]
    /\ shared_locks' = [shared_locks EXCEPT ![r] = NoLock]
    /\ sess' = [sess EXCEPT ![r].pc = "finished",
                            \* history: inserted chunks missing at the commit
                            ![r].missing_at_finish =
                                sess[r].ins_after_gc \ ChunkFiles]
    /\ manifest_file' = [manifest_file EXCEPT ![sess[r].time] = <<>>]
    /\ UNCHANGED <<now, chunks, gcVars, groupVars, cacheVars, env, auxVars, group_ret, manifest_lock,
                   updaters, mreader>>

\* upgrade_to_backup_protocol: the connection ended and ensure_finished
\* failed; env.remove_backup() is remove_backup_dir(dir, true)
session_end_unfinished(r) ==
    /\ sess[r].pc = "active"
    /\ snaps' = remove_backup_dir(sess[r].time, TRUE)
    /\ refused' = remove_backup_dir_log(sess[r].time, TRUE)
    /\ snap_lock' = [snap_lock EXCEPT ![sess[r].time] = NoHolder]
    /\ shared_locks' = [shared_locks EXCEPT ![r] = NoLock]
    /\ sess' = [sess EXCEPT ![r].pc = "aborted"]
    /\ UNCHANGED <<now, chunks, gcVars, ownerVars, extVars>>

\* a reader takes a shared chunk store lock
reader_lock ==
    /\ shared_locks["reader"] = NoLock
    /\ shared_locks' = [shared_locks EXCEPT !["reader"] = now]
    /\ UNCHANGED <<now, chunks, snaps, snap_lock, sess, gcVars, groupVars, extVars>>

\* the reader drops its guard
reader_unlock ==
    /\ shared_locks["reader"] # NoLock
    /\ shared_locks' = [shared_locks EXCEPT !["reader"] = NoLock]
    /\ UNCHANGED <<now, chunks, snaps, snap_lock, sess, gcVars, groupVars, extVars>>

\* ------------------------------------------------------------------ clock

SmallTicks == (now - StartTime) % SAFE_MARGIN

BigTicks == (now - StartTime) \div SAFE_MARGIN

\* a second passes
Tick ==
    /\ SmallTicks < MaxSmallTicks
    /\ now' = now + 1
    /\ UNCHANGED <<chunks, snaps, snap_lock, shared_locks, sess, gcVars, groupVars, extVars>>

\* more than a day passes
TickDay ==
    /\ BigTicks < MaxBigTicks
    /\ now' = now + SAFE_MARGIN
    /\ UNCHANGED <<chunks, snaps, snap_lock, shared_locks, sess, gcVars, groupVars, extVars>>

\* ------------------------------------------------------------------ garbage collection and a session

NoOwner == [user |-> "none", token |-> "none"]

\* a thread that is not in create_locked_backup_group; verdict is what its
\* last call came to
CallerIdle == [pc |-> "idle", auth |-> NoOwner, created |-> FALSE, res |-> NoOwner,
               verdict |-> "none"]

CallerIds == {"c1", "c2"}

\* a finished snapshot with this index
Finished(index) == [exists |-> TRUE, has_index |-> TRUE, index |-> index,
                    manifest |-> TRUE, protected |-> FALSE]

\* ------------------------------------------------------------------ manifest

UpdaterIds == {"u1", "u2"}

\* the snapshot whose manifest the threads update and read
ManifestSnap == 1

\* a thread that is not in update_manifest; done counts its calls that
\* returned Ok
UpdaterIdle == [pc |-> "idle", manifest |-> <<>>, raw_data |-> <<>>, done |-> 0,
                err |-> FALSE]

\* no thread is in update_manifest, nothing was read
ManifestInit ==
    /\ manifest_file = [t \in BackupTimes |-> <<>>]
    /\ manifest_lock = [t \in BackupTimes |-> NoHolder]
    /\ updaters = [u \in UpdaterIds |-> UpdaterIdle]
    /\ mreader = [seen |-> <<>>, committed |-> {<<>>}, reads |-> 0]

\* load_manifest returns Ok: index.json.blob of the snapshot can be read
load_manifest_ok(t) == snaps[t].exists /\ snaps[t].manifest

\* a lock_manifest that does not wait for the holder of the lock
lock_manifest_ok_always(t) == TRUE

\* lock_manifest: open_backup_lockfile gets the lock
lock_manifest_ok(t) == manifest_lock[t] = NoHolder

\* update_fn of the thread u: it leaves its mark in the manifest
update_fn(u, manifest) == Append(manifest, u)

\* update_manifest: let _guard = self.lock_manifest(backup_dir)?
update_manifest_lock(u) ==
    /\ updaters[u].pc = "idle"
    /\ updaters[u].done < MaxUpdates
    /\ lock_manifest_ok(ManifestSnap)
    /\ manifest_lock' = [manifest_lock EXCEPT ![ManifestSnap] = u]
    /\ updaters' = [updaters EXCEPT ![u].pc = "load", ![u].err = FALSE]
    /\ UNCHANGED <<now, chunks, snaps, snap_lock, shared_locks, sess, gcVars,
                   groupVars, cacheVars, env, auxVars, group_ret, manifest_file, mreader>>

\* lock_manifest: the lock is held by another for the 5 seconds of the timeout
update_manifest_timeout(u) ==
    /\ updaters[u].pc = "idle"
    /\ updaters[u].done < MaxUpdates
    /\ ~lock_manifest_ok(ManifestSnap)
    /\ updaters' = [updaters EXCEPT ![u].err = TRUE]
    /\ UNCHANGED <<now, chunks, snaps, snap_lock, shared_locks, sess, gcVars,
                   groupVars, cacheVars, env, auxVars, group_ret, manifest_file, manifest_lock, mreader>>

\* update_manifest: let (mut manifest, _) = self.load_manifest(backup_dir)?
update_manifest_load(u) ==
    /\ updaters[u].pc = "load"
    /\ IF load_manifest_ok(ManifestSnap)
       THEN /\ updaters' = [updaters EXCEPT ![u].manifest = manifest_file[ManifestSnap],
                                            ![u].pc = "update"]
            /\ UNCHANGED manifest_lock
       ELSE /\ updaters' = [updaters EXCEPT ![u].pc = "idle", ![u].err = TRUE]
            /\ manifest_lock' = [manifest_lock EXCEPT ![ManifestSnap] = NoHolder]
    /\ UNCHANGED <<now, chunks, snaps, snap_lock, shared_locks, sess, gcVars,
                   groupVars, cacheVars, env, auxVars, group_ret, manifest_file, mreader>>

\* update_manifest: update_fn(&mut manifest), serde_json, DataBlob::encode
update_manifest_encode(u) ==
    /\ updaters[u].pc = "update"
    /\ updaters' = [updaters EXCEPT ![u].raw_data = update_fn(u, updaters[u].manifest),
                                    ![u].pc = "replace"]
    /\ UNCHANGED <<now, chunks, snaps, snap_lock, shared_locks, sess, gcVars,
                   groupVars, cacheVars, env, auxVars, group_ret, manifest_file, manifest_lock, mreader>>

\* update_manifest: replace_file(&path, raw_data, ..) renames the temp file
\* into place; the guard is dropped
update_manifest_replace(u) ==
    /\ updaters[u].pc = "replace"
    /\ manifest_file' = [manifest_file EXCEPT ![ManifestSnap] = updaters[u].raw_data]
    /\ manifest_lock' = [manifest_lock EXCEPT
                           ![ManifestSnap] = IF @ = u THEN NoHolder ELSE @]
    /\ updaters' = [updaters EXCEPT ![u] = [UpdaterIdle EXCEPT !.done = updaters[u].done + 1]]
    \* history: what has been committed
    /\ mreader' = [mreader EXCEPT !.committed = @ \cup {updaters[u].raw_data}]
    /\ UNCHANGED <<now, chunks, snaps, snap_lock, shared_locks, sess, gcVars,
                   groupVars, cacheVars, env, auxVars, group_ret>>

\* load_manifest by a reader, without the lock
load_manifest ==
    /\ load_manifest_ok(ManifestSnap)
    /\ mreader.reads < MaxReads
    /\ mreader' = [mreader EXCEPT !.seen = manifest_file[ManifestSnap],
                                  !.reads = @ + 1]
    /\ UNCHANGED <<now, chunks, snaps, snap_lock, shared_locks, sess, gcVars,
                   groupVars, cacheVars, env, auxVars, group_ret, manifest_file, manifest_lock, updaters>>

\* the steps of one thread in update_manifest
UpdateManifest(u) ==
    \/ update_manifest_lock(u)
    \/ update_manifest_timeout(u)
    \/ update_manifest_load(u)
    \/ update_manifest_encode(u)
    \/ update_manifest_replace(u)

\* ------------------------------------------------------------------ DATASTORE_MAP

LookupIds == {"l1", "l2"}

\* map.get(name) is None
NoEntry == [inst |-> 0, last_generation |-> 0, last_update |-> 0]

\* a thread that is not in lookup_datastore; ret is the instance its last call
\* returned
LookupIdle == [pc |-> "idle", generation |-> 0, now |-> 0, ret |-> 0]

\* an empty map, the first configuration
CacheInit ==
    /\ datastore_map = NoEntry
    /\ datastore_generation = 1
    /\ instances = 0
    /\ lookups = [l \in LookupIds |-> LookupIdle]

\* lookup_datastore: datastore.last_generation == generation
\*                   && now < (datastore.last_update + 60)
entry_valid(entry, generation, time) ==
    /\ entry # NoEntry
    /\ entry.last_generation = generation
    /\ time < entry.last_update + 60

\* lookup_datastore: datastore_generation() and epoch_i64() are read
lookup_datastore_read(l) ==
    /\ lookups[l].pc = "idle"
    /\ lookups' = [lookups EXCEPT ![l] = [pc |-> "lock",
                                          generation |-> datastore_generation,
                                          now |-> now, ret |-> 0]]
    /\ UNCHANGED <<now, chunks, snaps, snap_lock, shared_locks, sess, gcVars,
                   groupVars, group_ret, manifestVars, env, auxVars, datastore_map,
                   datastore_generation, instances>>

\* lookup_datastore from DATASTORE_MAP.lock() to its return: the entry is
\* returned, or open_with_path makes an instance that replaces the entry
lookup_datastore_locked(l) ==
    /\ lookups[l].pc = "lock"
    /\ IF entry_valid(datastore_map, lookups[l].generation, lookups[l].now)
       THEN /\ lookups' = [lookups EXCEPT ![l].pc = "idle",
                                          ![l].ret = datastore_map.inst]
            /\ UNCHANGED <<datastore_map, instances>>
       ELSE /\ instances < MaxInstances
            /\ instances' = instances + 1
            /\ datastore_map' = [inst |-> instances + 1,
                                 last_generation |-> lookups[l].generation,
                                 last_update |-> lookups[l].now]
            /\ lookups' = [lookups EXCEPT ![l].pc = "idle",
                                          ![l].ret = instances + 1]
    /\ UNCHANGED <<now, chunks, snaps, snap_lock, shared_locks, sess, gcVars,
                   groupVars, group_ret, manifestVars, env, auxVars, datastore_generation>>

\* the configuration of the datastores is saved: the generation goes up
increase_datastore_generation ==
    /\ datastore_generation < MaxGeneration
    /\ datastore_generation' = datastore_generation + 1
    /\ UNCHANGED <<now, chunks, snaps, snap_lock, shared_locks, sess, gcVars,
                   groupVars, group_ret, manifestVars, env, auxVars, datastore_map, instances,
                   lookups>>

\* ------------------------------------------------------------------ backup protocol
\* BackupEnvironment (environment.rs), upload_chunk.rs and the index writers
\* are modelled from the written specification (sections 4.3, 4.4 and
\* "BackupSession"); the handlers are those of api2/backup.rs.

\* let chunk_size = 4096*1024 (create_fixed_index)
chunk_size == 4096 * 1024

\* the snapshot the session writes, and the request that started it
SessionSnap == MaxBackupTime

SessionId == "r1"

\* writer ids a client may name
Wids == 1..2

ArchiveNames == {"a.didx", "a.fidx"}

\* archive_name.ends_with(ext)
ends_with(name, ext) ==
    \/ name = "a.didx" /\ ext = ".didx"
    \/ name = "a.fidx" /\ ext = ".fidx"

\* the length of the chunk with this digest: the first one is a full chunk,
\* the others are one byte long
chunk_len(digest) == IF digest = 1 THEN chunk_size ELSE 1

\* the image size a client gives to create_fixed_index: a full chunk and a
\* last chunk that is shorter
ImageSizes == {chunk_size + 1}

\* the offsets a client sends
Offsets == {0, 1, chunk_size, chunk_size + 1}

Lists(S) == UNION {[1..n -> S] : n \in 1..MaxList}

\* the checksums a client sends: the digest list that was hashed
Csums == UNION {[1..n -> Digests] : n \in 1..MaxEntries}

\* no writer is registered under this id
NoDynamicWriter == [name |-> "none", offset |-> 0, chunk_count |-> 0, index |-> <<>>]

NoFixedWriter == [name |-> "none", size |-> 0, chunk_count |-> 0, index |-> <<>>]

\* BackupEnvironment::new: the session is Active, nothing is registered
EnvIdle == [state |-> "Active", task |-> "running", last_backup |-> 0,
            known_chunks |-> [d \in Digests |-> 0], uid_counter |-> 0,
            dynamic_writers |-> [w \in Wids |-> NoDynamicWriter],
            fixed_writers |-> [w \in Wids |-> NoFixedWriter],
            file_names |-> {}, files |-> {}, closed |-> {},
            manifest |-> [uploaded |-> FALSE, files |-> {}],
            result |-> "none"]

\* Result<_, Error> of a call on the environment
Ok(e) == [env |-> e, err |-> "none"]

Err(e, msg) == [env |-> e, err |-> msg]

\* a check that lets every request pass
ensure_unfinished_always(e) == TRUE

\* state.ensure_unfinished(): requests are served in state Active only
ensure_unfinished(e) == e.state = "Active"

\* env.ensure_finished(): finish has succeeded
ensure_finished(e) == e.state = "Finished"

\* env.register_chunk(digest, size)
register_chunk(e, digest, size) ==
    IF ~ensure_unfinished(e) THEN Err(e, "backup already marked as finished")
    ELSE Ok([e EXCEPT !.known_chunks[digest] = size])

\* a lookup that finds every digest
lookup_chunk_size_any(e, digest) ==
    IF e.known_chunks[digest] = 0 THEN 1 ELSE e.known_chunks[digest]

\* env.lookup_chunk(&digest): the registered size, None as 0
lookup_chunk_size(e, digest) == e.known_chunks[digest]

\* the chunk registry: the digests that were registered
registry(e) == {d \in Digests : e.known_chunks[d] # 0}

\* the response and the state of the environment after a request
Respond(res) == env' = [res.env EXCEPT !.result = res.err]

\* the response of a download is the stream of the digest list, which may
\* be empty
RespondStream(res) ==
    env' = [res.env EXCEPT !.result = IF res.err = "none" THEN "digest list"
                                      ELSE res.err]

\* what a request of the session leaves alone
sessionFrame == <<now, sess, gcVars, ownerVars, group_ret, manifest_lock, updaters,
                  mreader, cacheVars, auxVars>>

\* the dynamic index whose chunks are these digests, in ascending order
RECURSIVE DynamicIndexOf(_)
DynamicIndexOf(S) ==
    IF S = {} THEN <<>>
    ELSE LET d == SetMax(S)
             index == DynamicIndexOf(S \ {d})
             start == IF index = <<>> THEN 0 ELSE index[Len(index)].end_offset
         IN Append(index, [end_offset |-> start + chunk_len(d), digest |-> d])

\* env.datastore.open_dynamic_reader(path) of the last backup: its entries,
\* none if the index cannot be opened
open_dynamic_reader(last) ==
    IF snaps[last].exists /\ snaps[last].has_index
    THEN DynamicIndexOf(snaps[last].index) ELSE <<>>

\* dynamic_chunk_index: for pos in 0..count { chunk_info(pos); register_chunk }
RECURSIVE register_index(_, _, _)
register_index(e, index, pos) ==
    IF pos > Len(index) THEN Ok(e)
    ELSE LET start == IF pos = 1 THEN 0 ELSE index[pos - 1].end_offset
             size == index[pos].end_offset - start
             r == register_chunk(e, index[pos].digest, size)
         IN IF r.err # "none" THEN r ELSE register_index(r.env, index, pos + 1)

\* dynamic_chunk_index: download of the index of the last backup
dynamic_chunk_index(name) ==
    /\ RespondStream(IF ~ends_with(name, ".didx") THEN Err(env, "wrong archive extension")
                     ELSE IF env.last_backup = 0 THEN Ok(env)
                     ELSE register_index(env, open_dynamic_reader(env.last_backup), 1))
    /\ UNCHANGED <<chunks, snaps, snap_lock, shared_locks, refused, manifest_file,
                   sessionFrame>>

\* upload_dynamic_chunk: the chunk is inserted into the chunk store and
\* registered with its length
upload_dynamic_chunk(digest) ==
    /\ Respond(register_chunk(env, digest, chunk_len(digest)))
    /\ chunks' = IF ensure_unfinished(env) THEN insert_chunk(chunks, digest, now)
                 ELSE chunks
    /\ UNCHANGED <<snaps, snap_lock, shared_locks, refused, manifest_file, sessionFrame>>

\* upload_blob of the manifest: the files it declares
upload_blob(declared) ==
    /\ Respond(IF ~ensure_unfinished(env)
               THEN Err(env, "backup already marked as finished")
               ELSE Ok([env EXCEPT !.manifest = [uploaded |-> TRUE,
                                                 files |-> declared]]))
    /\ UNCHANGED <<chunks, snaps, snap_lock, shared_locks, refused, manifest_file,
                   sessionFrame>>

\* state.next_uid()
next_uid(e) == e.uid_counter + 1

\* a registration that takes a name that is in use
register_dynamic_writer_any_name(e, name) ==
    IF ~ensure_unfinished(e) THEN Err(e, "backup already marked as finished")
    ELSE Ok([e EXCEPT !.uid_counter = next_uid(e),
                      !.file_names = @ \cup {name},
                      !.dynamic_writers[next_uid(e)] =
                          [name |-> name, offset |-> 0, chunk_count |-> 0,
                           index |-> <<>>]])

\* env.register_dynamic_writer(index, name): archive names are distinct
register_dynamic_writer(e, name) ==
    IF ~ensure_unfinished(e) THEN Err(e, "backup already marked as finished")
    ELSE IF name \in e.file_names THEN Err(e, "file already exists")
    ELSE Ok([e EXCEPT !.uid_counter = next_uid(e),
                      !.file_names = @ \cup {name},
                      !.dynamic_writers[next_uid(e)] =
                          [name |-> name, offset |-> 0, chunk_count |-> 0,
                           index |-> <<>>]])

\* create_dynamic_index
create_dynamic_index(name) ==
    /\ Respond(IF ~ends_with(name, ".didx") THEN Err(env, "wrong archive extension")
               ELSE register_dynamic_writer(env, name))
    /\ UNCHANGED <<chunks, snaps, snap_lock, shared_locks, refused, manifest_file,
                   sessionFrame>>

\* FixedIndexReader/Writer: index_count = ceil(size/chunk_size)
index_count(size) == (size + chunk_size - 1) \div chunk_size

\* env.register_fixed_writer(index, name, size, chunk_size): the writer has
\* index_count placeholder digests
register_fixed_writer(e, name, size) ==
    IF ~ensure_unfinished(e) THEN Err(e, "backup already marked as finished")
    ELSE IF name \in e.file_names THEN Err(e, "file already exists")
    ELSE Ok([e EXCEPT !.uid_counter = next_uid(e),
                      !.file_names = @ \cup {name},
                      !.fixed_writers[next_uid(e)] =
                          [name |-> name, size |-> size, chunk_count |-> 0,
                           index |-> [i \in 1..index_count(size) |-> 0]]])

\* IntegerSchema::new(..).minimum(1): the parameter passes the verification
\* that comes before the handler
schema_minimum_1(v) == v >= 1

\* create_fixed_index, behind the schema of its parameters
API_METHOD_CREATE_FIXED_INDEX(name, size) ==
    /\ Respond(IF ~schema_minimum_1(size) THEN Err(env, "parameter verification errors")
               ELSE IF ~ends_with(name, ".fidx") THEN Err(env, "wrong archive extension")
               ELSE register_fixed_writer(env, name, size))
    /\ UNCHANGED <<chunks, snaps, snap_lock, shared_locks, refused, manifest_file,
                   sessionFrame>>

\* an append that takes every offset
dynamic_writer_append_chunk_any_offset(e, wid, offset, size, digest) ==
    LET data == e.dynamic_writers[wid]
    IN IF ~ensure_unfinished(e) THEN Err(e, "backup already marked as finished")
       ELSE IF data = NoDynamicWriter THEN Err(e, "dynamic writer not registered")
       ELSE Ok([e EXCEPT !.dynamic_writers[wid] =
                    [data EXCEPT !.offset = offset,
                                 !.chunk_count = @ + 1,
                                 !.index = Append(@, [end_offset |-> offset,
                                                      digest |-> digest])]])

\* env.dynamic_writer_append_chunk(wid, offset, size, &digest): the offset is
\* the end of the previous entry plus the size of this chunk, end offsets
\* increase strictly
dynamic_writer_append_chunk(e, wid, offset, size, digest) ==
    LET data == e.dynamic_writers[wid]
    IN IF ~ensure_unfinished(e) THEN Err(e, "backup already marked as finished")
       ELSE IF data = NoDynamicWriter THEN Err(e, "dynamic writer not registered")
       ELSE IF offset # data.offset + size \/ offset <= data.offset
       THEN Err(e, "got strange chunk offset")
       ELSE Ok([e EXCEPT !.dynamic_writers[wid] =
                    [data EXCEPT !.offset = offset,
                                 !.chunk_count = @ + 1,
                                 !.index = Append(@, [end_offset |-> offset,
                                                      digest |-> digest])]])

\* a loop that goes on with the next pair after a pair that failed
RECURSIVE dynamic_append_loop_continue(_, _, _, _, _)
dynamic_append_loop_continue(e, wid, digest_list, offset_list, i) ==
    IF i > Len(digest_list) THEN Ok(e)
    ELSE LET size == lookup_chunk_size(e, digest_list[i])
             r == IF size = 0 THEN Err(e, "no such chunk")
                  ELSE dynamic_writer_append_chunk(e, wid, offset_list[i], size,
                                                   digest_list[i])
             rest == dynamic_append_loop_continue(r.env, wid, digest_list,
                                                  offset_list, i + 1)
         IN IF r.err # "none" THEN Err(rest.env, r.err) ELSE rest

\* dynamic_append: for (i, item) in digest_list.iter().enumerate() { .. };
\* an error ends the loop, what was appended before stays
RECURSIVE dynamic_append_loop(_, _, _, _, _)
dynamic_append_loop(e, wid, digest_list, offset_list, i) ==
    IF i > Len(digest_list) THEN Ok(e)
    ELSE LET size == lookup_chunk_size(e, digest_list[i])
         IN IF size = 0 THEN Err(e, "no such chunk")
            ELSE LET r == dynamic_writer_append_chunk(e, wid, offset_list[i], size,
                                                      digest_list[i])
                 IN IF r.err # "none" THEN r
                    ELSE dynamic_append_loop(r.env, wid, digest_list, offset_list,
                                             i + 1)

\* dynamic_append: the check of the lengths and the loop
dynamic_append_body(e, wid, digest_list, offset_list) ==
    IF Len(offset_list) # Len(digest_list)
    THEN Err(e, "offset list has wrong length")
    ELSE dynamic_append_loop(e, wid, digest_list, offset_list, 1)

\* dynamic_append
dynamic_append(wid, digest_list, offset_list) ==
    /\ \A w \in Wids :
          Len(env.dynamic_writers[w].index) + Len(digest_list) <= MaxEntries
    /\ Respond(dynamic_append_body(env, wid, digest_list, offset_list))
    /\ UNCHANGED <<chunks, snaps, snap_lock, shared_locks, refused, manifest_file,
                   sessionFrame>>

\* env.fixed_writer_append_chunk(wid, offset, size, &digest), then
\* FixedIndexWriter::add_digest: the slot is offset/chunk_size and below
\* index_count
fixed_writer_append_chunk(e, wid, offset, size, digest) ==
    LET data == e.fixed_writers[wid]
        idx == offset \div chunk_size
    IN IF ~ensure_unfinished(e) THEN Err(e, "backup already marked as finished")
       ELSE IF data = NoFixedWriter THEN Err(e, "fixed writer not registered")
       ELSE IF offset % chunk_size # 0 THEN Err(e, "got unaligned chunk")
       ELSE IF ~(idx < index_count(data.size)) THEN Err(e, "index out of range")
       ELSE Ok([e EXCEPT !.fixed_writers[wid] =
                    [data EXCEPT !.chunk_count = @ + 1,
                                 !.index[idx + 1] = digest]])

\* fixed_append: for (i, item) in digest_list.iter().enumerate() { .. }
RECURSIVE fixed_append_loop(_, _, _, _, _)
fixed_append_loop(e, wid, digest_list, offset_list, i) ==
    IF i > Len(digest_list) THEN Ok(e)
    ELSE LET size == lookup_chunk_size(e, digest_list[i])
         IN IF size = 0 THEN Err(e, "no such chunk")
            ELSE LET r == fixed_writer_append_chunk(e, wid, offset_list[i], size,
                                                    digest_list[i])
                 IN IF r.err # "none" THEN r
                    ELSE fixed_append_loop(r.env, wid, digest_list, offset_list,
                                           i + 1)

\* fixed_append: the check of the lengths and the loop
fixed_append_body(e, wid, digest_list, offset_list) ==
    IF Len(offset_list) # Len(digest_list)
    THEN Err(e, "offset list has wrong length")
    ELSE fixed_append_loop(e, wid, digest_list, offset_list, 1)

\* fixed_append
API_METHOD_FIXED_APPEND(wid, digest_list, offset_list) ==
    /\ \A w \in Wids :
          env.fixed_writers[w].chunk_count + Len(digest_list) <= MaxEntries
    /\ Respond(fixed_append_body(env, wid, digest_list, offset_list))
    /\ UNCHANGED <<chunks, snaps, snap_lock, shared_locks, refused, manifest_file,
                   sessionFrame>>

\* the digest-list checksum of an index: equal exactly for equal lists
index_csum(digests) == digests

\* the digests of a dynamic index, in order
dynamic_digests(index) == [i \in 1..Len(index) |-> index[i].digest]

\* the index file is renamed to its final name; history: the totals the
\* client expected
commit_index(e, name, chunk_count, size, csum) ==
    [e EXCEPT !.files = @ \cup {name},
              !.closed = @ \cup {[name |-> name, chunk_count |-> chunk_count,
                                  size |-> size, csum |-> csum]}]

\* a close that commits whatever the client expects
dynamic_writer_close_unchecked(e, wid, chunk_count, size, csum) ==
    LET data == e.dynamic_writers[wid]
    IN IF ~ensure_unfinished(e) THEN Err(e, "backup already marked as finished")
       ELSE IF data = NoDynamicWriter THEN Err(e, "dynamic writer not registered")
       ELSE Ok([commit_index(e, data.name, chunk_count, size, csum)
                    EXCEPT !.dynamic_writers[wid] = NoDynamicWriter])

\* env.dynamic_writer_close(wid, chunk_count, size, csum): the totals of the
\* writer are compared with the expected ones, then the index is committed
dynamic_writer_close(e, wid, chunk_count, size, csum) ==
    LET data == e.dynamic_writers[wid]
    IN IF ~ensure_unfinished(e) THEN Err(e, "backup already marked as finished")
       ELSE IF data = NoDynamicWriter THEN Err(e, "dynamic writer not registered")
       ELSE IF data.chunk_count # chunk_count THEN Err(e, "unexpected chunk count")
       ELSE IF data.offset # size THEN Err(e, "unexpected file size")
       ELSE IF index_csum(dynamic_digests(data.index)) # csum
       THEN Err(e, "got unexpected checksum")
       ELSE Ok([commit_index(e, data.name, chunk_count, size, csum)
                    EXCEPT !.dynamic_writers[wid] = NoDynamicWriter])

\* the snapshot directory after an index was committed
index_committed(name, digests) ==
    [snaps EXCEPT ![SessionSnap].has_index = TRUE,
                  ![SessionSnap].index = @ \cup digests]

\* close_dynamic_index
close_dynamic_index(wid, chunk_count, size, csum) ==
    LET res == dynamic_writer_close(env, wid, chunk_count, size, csum)
    IN /\ Respond(res)
       /\ snaps' = IF res.err = "none"
                   THEN index_committed(env.dynamic_writers[wid].name,
                            {env.dynamic_writers[wid].index[i].digest :
                                i \in 1..Len(env.dynamic_writers[wid].index)})
                   ELSE snaps
       /\ UNCHANGED <<chunks, snap_lock, shared_locks, refused, manifest_file,
                      sessionFrame>>

\* env.fixed_writer_close(wid, chunk_count, size, csum): every slot is
\* written and the totals are the expected ones, then the index is committed
fixed_writer_close(e, wid, chunk_count, size, csum) ==
    LET data == e.fixed_writers[wid]
    IN IF ~ensure_unfinished(e) THEN Err(e, "backup already marked as finished")
       ELSE IF data = NoFixedWriter THEN Err(e, "fixed writer not registered")
       ELSE IF \E i \in 1..Len(data.index) : data.index[i] = 0
       THEN Err(e, "slot not written")
       ELSE IF data.chunk_count # chunk_count THEN Err(e, "unexpected chunk count")
       ELSE IF data.size # size THEN Err(e, "unexpected file size")
       ELSE IF index_csum(data.index) # csum THEN Err(e, "got unexpected checksum")
       ELSE Ok([commit_index(e, data.name, chunk_count, size, csum)
                    EXCEPT !.fixed_writers[wid] = NoFixedWriter])

\* close_fixed_index, behind the schema of its parameters
API_METHOD_CLOSE_FIXED_INDEX(wid, chunk_count, size, csum) ==
    LET res == IF ~schema_minimum_1(chunk_count) \/ ~schema_minimum_1(size)
               THEN Err(env, "parameter verification errors")
               ELSE fixed_writer_close(env, wid, chunk_count, size, csum)
    IN /\ Respond(res)
       /\ snaps' = IF res.err = "none"
                   THEN index_committed(env.fixed_writers[wid].name,
                            {env.fixed_writers[wid].index[i] :
                                i \in 1..Len(env.fixed_writers[wid].index)})
                   ELSE snaps
       /\ UNCHANGED <<chunks, snap_lock, shared_locks, refused, manifest_file,
                      sessionFrame>>

\* the writers that are registered and not closed
open_writers(e) ==
    {w \in Wids : e.dynamic_writers[w] # NoDynamicWriter
                  \/ e.fixed_writers[w] # NoFixedWriter}

\* a finish that does not look for the files the manifest declares
finish_ok_missing_files(e) ==
    /\ ensure_unfinished(e)
    /\ open_writers(e) = {}
    /\ e.manifest.uploaded

\* a finish that does not look at the writers
finish_ok_open_writers(e) ==
    /\ ensure_unfinished(e)
    /\ e.manifest.uploaded
    /\ e.manifest.files \subseteq e.files

\* env.finish_backup() returns Ok: every registered writer is closed and the
\* files the manifest declares are supplied
finish_ok(e) ==
    /\ ensure_unfinished(e)
    /\ open_writers(e) = {}
    /\ e.manifest.uploaded
    /\ e.manifest.files \subseteq e.files

\* finish_backup: the manifest is written, the session is Finished and its
\* locks are released
finish ==
    /\ Respond(IF finish_ok(env) THEN Ok([env EXCEPT !.state = "Finished"])
               ELSE Err(env, "unable to finish backup"))
    /\ IF finish_ok(env)
       THEN /\ snaps' = [snaps EXCEPT ![SessionSnap].manifest = TRUE]
            /\ manifest_file' = [manifest_file EXCEPT ![SessionSnap] = <<>>]
            /\ snap_lock' = [snap_lock EXCEPT ![SessionSnap] = NoHolder]
            /\ shared_locks' = [shared_locks EXCEPT ![SessionId] = NoLock]
       ELSE UNCHANGED <<snaps, manifest_file, snap_lock, shared_locks>>
    /\ UNCHANGED <<chunks, refused, sessionFrame>>

\* a session end that removes the snapshot whatever ensure_finished says
session_kept_never(e) == FALSE

\* upgrade_to_backup_protocol: match (res, env.ensure_finished()): the
\* snapshot is kept in the arms (_, Ok(()))
session_kept(e) == ensure_finished(e)

\* upgrade_to_backup_protocol: the connection ended with res (Ok, or Err for
\* a transport error or an abort of the task); env.remove_backup() is
\* remove_backup_dir(dir, true)
worker_end(res) ==
    /\ env.task = "running"
    /\ IF session_kept(env)
       THEN /\ env' = [env EXCEPT !.task = "ok"]
            /\ UNCHANGED <<snaps, refused, snap_lock, shared_locks>>
       ELSE /\ env' = [env EXCEPT !.task = "error", !.state = "Aborted",
                                  !.files = IF remove_backup_dir_ok(SessionSnap, TRUE)
                                            THEN {} ELSE @]
            /\ snaps' = remove_backup_dir(SessionSnap, TRUE)
            /\ refused' = remove_backup_dir_log(SessionSnap, TRUE)
            /\ snap_lock' = [snap_lock EXCEPT ![SessionSnap] = NoHolder]
            /\ shared_locks' = [shared_locks EXCEPT ![SessionId] = NoLock]
    /\ UNCHANGED <<chunks, manifest_file, sessionFrame>>

\* ------------------------------------------------------------------ chunk insert
\* ChunkStore::insert_chunk in its steps, after the written specification
\* (section 4.1): stat the target; touch a file that exists; else write a temp
\* file in the shard directory, fsync, rename into place.

\* how many times a thread calls insert_chunk for the digest
MaxInserts == 2

\* the writes it takes to put down a whole blob
BlobLen == 2

\* the threads that insert the same digest
Inserters == {"p", "q"}

\* no file under a name
NoFile == [by |-> "none", len |-> 0]

\* a file holds a whole blob
whole(f) == f.len = BlobLen

CsIdle == [file |-> NoFile, atime |-> 0, tmp |-> [i \in Inserters |-> NoFile],
           pc |-> [i \in Inserters |-> "idle"],
           existed |-> [i \in Inserters |-> FALSE],
           calls |-> [i \in Inserters |-> 0], seen |-> {}]


\* insert_chunk that writes the blob under the final name
insert_write_in_place(c, i) ==
    LET f == [by |-> i, len |-> (IF c.file.by = i THEN c.file.len ELSE 0) + 1]
    IN [c EXCEPT !.file = f, !.tmp[i] = f]

\* insert_chunk: one write of the blob, to the temp file of the caller
insert_write(c, i) == [c EXCEPT !.tmp[i] = [by |-> i, len |-> @.len + 1]]

\* insert_chunk: the target is looked up; a file that exists is touched and
\* the call returns existed = true
insert_chunk_stat(i) ==
    /\ cs.pc[i] = "idle"
    /\ cs.calls[i] < MaxInserts
    /\ cs' = IF cs.file # NoFile
             THEN [cs EXCEPT !.atime = @ + 1, !.existed[i] = TRUE, !.pc[i] = "done"]
             ELSE [cs EXCEPT !.existed[i] = FALSE, !.pc[i] = "write"]
    /\ UNCHANGED <<mainVars, bad, run, ord, moreVars>>

\* insert_chunk: the blob is written; after its last write comes the fsync
insert_chunk_write(i) ==
    /\ cs.pc[i] = "write"
    /\ LET c == insert_write(cs, i)
       IN cs' = [c EXCEPT !.pc[i] = IF whole(c.tmp[i]) THEN "rename" ELSE "write"]
    /\ UNCHANGED <<mainVars, bad, run, ord, moreVars>>

\* insert_chunk: the temp file is renamed into place
insert_chunk_rename(i) ==
    /\ cs.pc[i] = "rename"
    /\ cs' = [cs EXCEPT !.file = cs.tmp[i], !.tmp[i] = NoFile, !.atime = @ + 1,
                        !.pc[i] = "done"]
    /\ UNCHANGED <<mainVars, bad, run, ord, moreVars>>

\* insert_chunk returns (existed, size)
insert_chunk_return(i) ==
    /\ cs.pc[i] = "done"
    /\ cs' = [cs EXCEPT !.pc[i] = "idle", !.calls[i] = @ + 1]
    /\ UNCHANGED <<mainVars, bad, run, ord, moreVars>>

\* a reader opens the chunk under its final name; history: what it found
read_chunk ==
    /\ cs.file # NoFile
    /\ cs.file \notin cs.seen
    /\ cs' = [cs EXCEPT !.seen = @ \cup {cs.file}]
    /\ UNCHANGED <<mainVars, bad, run, ord, moreVars>>

NextInsert ==
    \/ \E i \in Inserters : insert_chunk_stat(i)
    \/ \E i \in Inserters : insert_chunk_write(i)
    \/ \E i \in Inserters : insert_chunk_rename(i)
    \/ \E i \in Inserters : insert_chunk_return(i)
    \/ read_chunk

\* ------------------------------------------------------------------ one garbage collection task
\* garbage_collection with the loops of mark_used_chunks and
\* index_mark_used_chunks taken round by round, the errors they return and
\* the poll points of the worker task.

\* how many times the task is started
MaxRuns == 2

\* the extensions <i>.bad that index_mark_used_chunks looks for: 0..=9
BadExts == 0..9

NoBad == [d \in Digests |-> [i \in BadExts |-> NoChunk]]

\* GarbageCollectionStatus::default(), with the counters of phase 1
GcStatusZero == [upid |-> "none", removed_chunks |-> 0, index_file_count |-> 0,
                 index_data_bytes |-> 0]

\* index.index_bytes(): the images of the model are made of whole chunks
index_bytes(index) == Cardinality(index) * chunk_size

\* no error on the walk
NoWalkError == [kind |-> "none", depth |-> 0, lost_found |-> FALSE, has_path |-> FALSE]

RunIdle == [pc |-> "idle", runs |-> 0, signal |-> "none", foreign |-> FALSE,
            phase1_start_time |-> 0, oldest_writer |-> 0, listed |-> {},
            image_list |-> {}, opened |-> {}, img |-> 0, todo |-> {},
            status |-> GcStatusZero, warnings |-> 0, sweep_pos |-> 0,
            removed |-> {}, err |-> "none", last |-> "none", cancels |-> {},
            walk |-> NoWalkError, outcome |-> "none",
            shadow |-> [d \in Digests |-> NoChunk],
            trial |-> [d \in Digests |-> NoChunk]]


\* the errors WalkDir can hand to list_images (links are not followed, so
\* each of them carries an io error)
WalkErrors == [kind : {"PermissionDenied", "Other"}, depth : {1, 2},
               lost_found : BOOLEAN, has_path : BOOLEAN]

\* handle_entry_err that skips every directory it may not read
handle_entry_err_lenient(err) ==
    IF err.has_path /\ err.kind # "PermissionDenied"
    THEN "unexpected error on datastore traversal"
    ELSE IF ~err.has_path THEN "unexpected error on datastore traversal"
    ELSE "ok"

\* list_images: handle_entry_err; "ok" for Ok(()), else the message of bail!
handle_entry_err(err) ==
    IF err.has_path
    THEN IF err.kind = "PermissionDenied"
         THEN IF err.depth > 1 \/ ~err.lost_found
              THEN "cannot continue garbage-collection safely, permission denied"
              ELSE "ok"
         ELSE "unexpected error on datastore traversal"
    ELSE "unexpected error on datastore traversal"

\* worker.check_abort()?; worker.fail_on_shutdown()?: "ok" or the error
check_abort(r) ==
    IF r.signal = "abort" THEN "abort requested"
    ELSE IF r.signal = "shutdown" THEN "server shutdown"
    ELSE "ok"

\* a loop that stops after <digest>.0.bad
touch_bad_first(b, d, t) ==
    [b EXCEPT ![d][0] = IF b[d][0] = NoChunk THEN NoChunk ELSE t]

\* the for loop over 0..=9 with cond_touch_path(bad_path, false)
touch_bad(b, d, t) ==
    [b EXCEPT ![d] = [i \in BadExts |-> IF b[d][i] = NoChunk THEN NoChunk ELSE t]]

\* what the garbage collection task leaves alone
runFrame == <<snaps, snap_lock, shared_locks, gc, sess, groupVars, group_ret,
              manifestVars, cacheVars, env, cs, ord, moreVars>>

\* the upid of the task in its n-th run; <<>> is None
Upid(n) == <<n>>

\* the phase the task is in
phase(r) == IF r.pc = "sweep" THEN "phase2" ELSE "phase1"

\* an error return that keeps the exclusive lock
garbage_collection_bail_locked(msg, how) ==
    /\ run' = [run EXCEPT !.pc = "idle", !.err = msg, !.last = how,
                          !.signal = "none",
                          !.cancels = IF how = "cancelled" THEN @ \cup {phase(run)} ELSE @]
    /\ gc_mutex' = NoHolder
    /\ UNCHANGED <<exclusive, chunks, bad, last_gc_status>>

\* an error leaves garbage_collection through `?`: the guards _mutex and
\* _exclusive_lock are dropped, last_gc_status is not assigned; history: the
\* phases in which the task was cancelled
garbage_collection_bail(msg, how) ==
    /\ run' = [run EXCEPT !.pc = "idle", !.err = msg, !.last = how,
                          !.signal = "none",
                          !.cancels = IF how = "cancelled" THEN @ \cup {phase(run)} ELSE @]
    /\ gc_mutex' = NoHolder
    /\ exclusive' = FALSE
    /\ UNCHANGED <<chunks, bad, last_gc_status>>

\* the loop of mark_used_chunks goes on with the next image, or is through
after_image(rest) == IF rest = {} THEN "sweep" ELSE "mark"

\* garbage_collection up to the call of mark_used_chunks; history: removed
\* holds the chunks the runs of the task have removed
garbage_collection_enter ==
    /\ run.pc = "idle"
    /\ run.runs < MaxRuns
    /\ gc_try_lock
    /\ IF try_exclusive_lock
       THEN /\ gc_mutex' = "g1"
            /\ exclusive' = TRUE
            /\ run' = [run EXCEPT
                         !.pc = "list", !.runs = @ + 1,
                         !.phase1_start_time = now,
                         !.oldest_writer = gc_oldest_writer(now),
                         !.status = [GcStatusZero EXCEPT !.upid = Upid(run.runs + 1)],
                         !.listed = {}, !.image_list = {}, !.opened = {},
                         !.todo = {}, !.warnings = 0, !.sweep_pos = 1,
                         !.err = "none", !.last = "running",
                         !.walk = NoWalkError, !.outcome = "none",
                         !.trial = run.shadow]
       ELSE /\ run' = [run EXCEPT !.runs = @ + 1, !.err = "exclusive lock",
                                  !.last = "failed"]
            /\ UNCHANGED <<gc_mutex, exclusive>>
    /\ UNCHANGED <<now, chunks, bad, last_gc_status, runFrame>>

\* mark_used_chunks: let image_list = self.list_images()?, with an error the
\* walk may meet
list_images_walk(walk) ==
    /\ run.pc = "list"
    /\ IF walk = NoWalkError \/ handle_entry_err(walk) = "ok"
       THEN /\ run' = [run EXCEPT !.listed = list_images,
                                  !.image_list = list_images,
                                  !.walk = walk,
                                  !.pc = after_image(list_images)]
            /\ UNCHANGED <<chunks, bad, exclusive, gc_mutex, last_gc_status>>
       ELSE garbage_collection_bail(handle_entry_err(walk), "failed")
    /\ UNCHANGED <<now, runFrame>>

\* what File::open and the reader's new can come to
OpenOutcomes == {"ok", "NotFound", "open error", "read error"}

\* mark_used_chunks: the top of one round of the loop over image_list, up to
\* the first position of the index
mark_used_chunks_open(outcome) ==
    /\ run.pc = "mark"
    /\ LET img == SetMin(run.image_list)
           rest == run.image_list \ {img}
           found == snaps[img].exists /\ snaps[img].has_index
       IN /\ (outcome = "NotFound") = ~found
          /\ IF check_abort(run) # "ok"
             THEN garbage_collection_bail(check_abort(run), "cancelled")
             ELSE IF outcome = "open error"
             THEN garbage_collection_bail("can't open index", "failed")
             ELSE IF outcome = "read error"
             THEN garbage_collection_bail("can't read index", "failed")
             ELSE /\ run' = IF outcome = "NotFound"
                            THEN [run EXCEPT !.image_list = rest,
                                             !.outcome = outcome,
                                             !.pc = after_image(rest)]
                            ELSE [run EXCEPT
                                    !.image_list = rest, !.img = img,
                                    !.outcome = outcome,
                                    !.opened = @ \cup {img},
                                    !.todo = snaps[img].index,
                                    !.status.index_file_count = @ + 1,
                                    !.status.index_data_bytes =
                                        @ + index_bytes(snaps[img].index),
                                    !.pc = IF snaps[img].index = {}
                                           THEN after_image(rest) ELSE "index"]
                  /\ UNCHANGED <<chunks, bad, exclusive, gc_mutex, last_gc_status>>
    /\ UNCHANGED <<now, runFrame>>

\* index_mark_used_chunks: one round of the loop over the positions
index_mark_used_chunks_pos ==
    /\ run.pc = "index"
    /\ LET digest == SetMin(run.todo)
           rest == run.todo \ {digest}
       IN IF check_abort(run) # "ok"
          THEN garbage_collection_bail(check_abort(run), "cancelled")
          ELSE /\ chunks' = cond_touch_chunk(chunks, digest, now)
               /\ bad' = IF chunks[digest] = NoChunk
                         THEN touch_bad(bad, digest, now) ELSE bad
               /\ run' = [run EXCEPT
                            !.todo = rest,
                            !.warnings = IF chunks[digest] = NoChunk THEN @ + 1 ELSE @,
                            !.trial = cond_touch_chunk(@, digest, now),
                            !.pc = IF rest = {} THEN after_image(run.image_list)
                                   ELSE "index"]
               /\ UNCHANGED <<exclusive, gc_mutex, last_gc_status>>
    /\ UNCHANGED <<now, runFrame>>

\* sweep_unused_chunks: one round of the loop over the chunk files, with its
\* poll point (written specification, 4.7 and 5)
sweep_unused_chunks_chunk ==
    /\ run.pc = "sweep"
    /\ run.sweep_pos \in Digests
    /\ LET d == run.sweep_pos
           rm(ch) == /\ ch[d] # NoChunk
                     /\ sweep_removes(ch[d], run.oldest_writer, run.phase1_start_time)
       IN IF check_abort(run) # "ok"
          THEN garbage_collection_bail(check_abort(run), "cancelled")
          ELSE /\ chunks' = IF rm(chunks) THEN [chunks EXCEPT ![d] = NoChunk] ELSE chunks
               /\ run' = [run EXCEPT
                            !.sweep_pos = d + 1,
                            !.removed = IF rm(chunks) THEN @ \cup {d} ELSE @,
                            !.status.removed_chunks = IF rm(chunks) THEN @ + 1 ELSE @,
                            !.trial = IF rm(@) THEN [@ EXCEPT ![d] = NoChunk] ELSE @]
               /\ UNCHANGED <<bad, exclusive, gc_mutex, last_gc_status>>
    /\ UNCHANGED <<now, runFrame>>

\* garbage_collection after the sweep: *self.last_gc_status.lock() = gc_status,
\* then the guards are dropped
garbage_collection_return ==
    /\ run.pc = "sweep"
    /\ run.sweep_pos \notin Digests
    /\ last_gc_status' = run.status
    /\ gc_mutex' = NoHolder
    /\ exclusive' = FALSE
    /\ run' = [run EXCEPT !.pc = "idle", !.last = "complete", !.signal = "none",
                          !.shadow = run.trial]
    /\ UNCHANGED <<now, chunks, bad, runFrame>>

\* the task is marked for abort, or the server shuts down
abort_request(signal) ==
    /\ run.pc # "idle"
    /\ run.signal = "none"
    /\ run' = [run EXCEPT !.signal = signal]
    /\ UNCHANGED <<now, chunks, bad, exclusive, gc_mutex, last_gc_status, runFrame>>

\* the daemon that was replaced still runs a garbage collection of its own:
\* its process holds the exclusive lock
old_daemon_lock ==
    /\ run.pc = "idle"
    /\ run.runs = 0
    /\ try_exclusive_lock
    /\ exclusive' = TRUE
    /\ run' = [run EXCEPT !.foreign = TRUE]
    /\ UNCHANGED <<now, chunks, bad, gc_mutex, last_gc_status, runFrame>>

\* the old daemon is through
old_daemon_unlock ==
    /\ run.foreign
    /\ exclusive' = FALSE
    /\ run' = [run EXCEPT !.foreign = FALSE]
    /\ UNCHANGED <<now, chunks, bad, gc_mutex, last_gc_status, runFrame>>

\* ------------------------------------------------------------------ chunks in order
\* DataStore::get_chunks_in_order

\* the longest index
MaxIndex == 3

\* the largest inode number of a chunk file
MaxIno == 2

\* u64::MAX in the width of the model: above every inode number
u64_MAX == MaxIno + 1

\* stat_chunk returned Err
StatErr == 0

\* check_abort never fails
NoAbort == -1

OrdIdle == [index |-> <<>>, skip |-> {}, chunk_order |-> "None",
            stat |-> [d \in Digests |-> StatErr], abort_at |-> NoAbort,
            called |-> FALSE, ok |-> FALSE, list |-> <<>>]

\* the indexes, skip closures, chunk orders, inode numbers and abort points
\* a call is made with
OrdInputs ==
    {[OrdIdle EXCEPT !.index = index, !.skip = skip, !.chunk_order = order,
                     !.stat = stat, !.abort_at = abort_at] :
        index \in UNION {[1..n -> Digests] : n \in 0..MaxIndex},
        skip \in SUBSET Digests,
        order \in {"Inode", "None"},
        stat \in [Digests -> {StatErr} \cup (1..MaxIno)],
        abort_at \in {NoAbort, 0, MaxIndex - 1}}

\* the inode of a chunk that could not be stat'ed is taken as 0
chunk_ino_zero(o, digest) ==
    IF o.chunk_order = "Inode" THEN o.stat[digest] ELSE 0

\* the match on self.chunk_order inside the loop
chunk_ino(o, digest) ==
    IF o.chunk_order = "Inode"
    THEN IF o.stat[digest] = StatErr THEN u64_MAX ELSE o.stat[digest]
    ELSE 0

\* the loop over 0..index_count from pos on: the pairs that are pushed
RECURSIVE chunk_list_from(_, _)
chunk_list_from(o, pos) ==
    IF pos >= Len(o.index) THEN <<>>
    ELSE IF o.index[pos + 1] \in o.skip THEN chunk_list_from(o, pos + 1)
    ELSE <<<<pos, chunk_ino(o, o.index[pos + 1])>>>> \o chunk_list_from(o, pos + 1)

\* check_abort(pos)? fails at a position of the loop
order_aborted(o) == o.abort_at # NoAbort /\ o.abort_at < Len(o.index)

\* what sort_unstable_by leaves: any order of the pairs with the inode
\* numbers not decreasing
sorted_lists(list) ==
    {[i \in 1..Len(list) |-> list[f[i]]] :
        f \in {g \in [1..Len(list) -> 1..Len(list)] :
                 /\ \A i, j \in 1..Len(list) : g[i] = g[j] => i = j
                 /\ \A i \in 1..(Len(list) - 1) : list[g[i]][2] <= list[g[i + 1]][2]}}

\* get_chunks_in_order(index, skip_chunk, check_abort)
get_chunks_in_order ==
    /\ ~ord.called
    /\ IF order_aborted(ord)
       THEN ord' = [ord EXCEPT !.called = TRUE, !.ok = FALSE]
       ELSE \E list \in (IF ord.chunk_order = "Inode"
                         THEN sorted_lists(chunk_list_from(ord, 0))
                         ELSE {chunk_list_from(ord, 0)}) :
               ord' = [ord EXCEPT !.called = TRUE, !.ok = TRUE, !.list = list]
    /\ UNCHANGED <<mainVars, cs, bad, run, moreVars>>

\* a store with one finished snapshot whose chunks are more than a day old;
\* other chunks may be left over from snapshots that were removed
\* ------------------------------------------------------------------ download of the last index
\* fixed_chunk_index and dynamic_chunk_index with the index files of the last
\* backup position by position; FixedIndexReader and DynamicIndexReader are
\* modelled from the written specification (sections 4.3 and 4.4)

\* the longest index file of the last backup
MaxCount == 2

\* how often the client asks for an index
MaxDownloads == 2

\* open_fixed_reader / open_dynamic_reader returned Err
NoFixedIndex == [exists |-> FALSE, size |-> 0, index |-> <<>>]

NoDynamicIndex == [exists |-> FALSE, index |-> <<>>]

DlIdle == [fixed |-> NoFixedIndex, dynamic |-> NoDynamicIndex, calls |-> 0,
           kind |-> "none", name |-> "none", before |-> [d \in Digests |-> 0],
           response |-> "none", body |-> <<>>]

\* fixed_chunk_index: start and end of the chunk at pos, every chunk is taken
\* as a full one
fixed_chunk_len_full(index, pos) == chunk_size

\* fixed_chunk_index: start = pos*chunk_size, end = start + chunk_size,
\* if end > image_size { end = image_size }, size = end - start
fixed_chunk_len(index, pos) ==
    LET image_size == index.size
        start == pos * chunk_size
        end == IF start + chunk_size > image_size THEN image_size
               ELSE start + chunk_size
    IN end - start

\* fixed_chunk_index: for pos in 0..count { ...; env.register_chunk(*digest, size)? }
RECURSIVE register_fixed_index(_, _, _)
register_fixed_index(e, index, pos) ==
    IF pos >= Len(index.index) THEN Ok(e)
    ELSE LET r == register_chunk(e, index.index[pos + 1], fixed_chunk_len(index, pos))
         IN IF r.err # "none" THEN r ELSE register_fixed_index(r.env, index, pos + 1)

\* the response of a download and the calls that were made
download_response(kind, name, res, index, digests) ==
    /\ env' = [res.env EXCEPT !.result = res.err]
    /\ dl' = [dl EXCEPT !.calls = @ + 1, !.kind = kind, !.name = name, !.before = env.known_chunks,
                        !.response = IF res.err # "none" THEN "error"
                                     ELSE IF env.last_backup = 0 \/ ~index.exists
                                     THEN "empty" ELSE "stream",
                        !.body = IF res.err = "none" /\ env.last_backup # 0
                                    /\ index.exists
                                 THEN digests ELSE <<>>]
    /\ UNCHANGED <<now, chunks, snaps, snap_lock, shared_locks, gcVars, sess,
                   groupVars, group_ret, manifestVars, cacheVars, cs, bad, run, ord, api, igc, dir, ap, call, lk>>

\* fixed_chunk_index
API_METHOD_FIXED_CHUNK_INDEX(name) ==
    /\ dl.calls < MaxDownloads
    /\ download_response("fixed", name,
          IF ~ends_with(name, ".fidx") THEN Err(env, "wrong archive extension")
          ELSE IF env.last_backup = 0 THEN Ok(env)
          ELSE IF ~dl.fixed.exists THEN Ok(env)
          ELSE register_fixed_index(env, dl.fixed, 0),
          dl.fixed, dl.fixed.index)

\* dynamic_chunk_index with the index file by its entries
API_METHOD_DYNAMIC_CHUNK_INDEX(name) ==
    /\ dl.calls < MaxDownloads
    /\ download_response("dynamic", name,
          IF ~ends_with(name, ".didx") THEN Err(env, "wrong archive extension")
          ELSE IF env.last_backup = 0 THEN Ok(env)
          ELSE IF ~dl.dynamic.exists THEN Ok(env)
          ELSE register_index(env, dl.dynamic.index, 1),
          dl.dynamic, dynamic_digests(dl.dynamic.index))

\* the entries of a dynamic index with these chunks
RECURSIVE dynamic_entries(_)
dynamic_entries(digests) ==
    IF digests = <<>> THEN <<>>
    ELSE LET head == dynamic_entries(SubSeq(digests, 1, Len(digests) - 1))
             start == IF head = <<>> THEN 0 ELSE head[Len(head)].end_offset
             digest == digests[Len(digests)]
         IN Append(head, [end_offset |-> start + chunk_len(digest), digest |-> digest])

DigestLists == UNION {[1..n -> Digests] : n \in 0..MaxCount}

\* the fixed index files the last backup may hold: images of up to MaxCount
\* chunks, the last chunk full or short; equal digests are chunks of equal
\* length
FixedIndexFiles ==
    {NoFixedIndex} \cup
    {f \in [exists : {TRUE},
            size : {0} \cup UNION {{(n - 1) * chunk_size + 1, n * chunk_size} :
                                     n \in 1..MaxCount},
            index : DigestLists] :
        /\ Len(f.index) = index_count(f.size)
        /\ \A i, j \in 1..Len(f.index) :
              f.index[i] = f.index[j] =>
                 fixed_chunk_len(f, i - 1) = fixed_chunk_len(f, j - 1)}

DynamicIndexFiles ==
    {NoDynamicIndex} \cup
    {[exists |-> TRUE, index |-> dynamic_entries(digests)] : digests \in DigestLists}

\* ------------------------------------------------------------------ calls on a snapshot
\* update_protection and remove_backup_dir as calls that return a result

\* how many calls are made
MaxCalls == 2

ApiIdle == [op |-> "none", time |-> 0, protection |-> FALSE, force |-> FALSE,
            ok |-> FALSE, before |-> NoDir, holder |-> NoHolder, n |-> 0]

\* what a call on a snapshot leaves alone
apiFrame == <<now, chunks, snap_lock, shared_locks, sess, gcVars, ownerVars,
              group_ret, manifestVars, cacheVars, env, cs, bad, run, ord, dl, igc, dir, ap, call, lk>>

\* DataStore::update_protection(backup_dir, protection): Ok(()) when
\* lock_dir_noblock gives the guard; the guard is dropped at the return
DataStore_update_protection(t, protection) ==
    /\ api.n < MaxCalls
    /\ snaps' = IF lock_dir_noblock_ok(t)
                THEN [snaps EXCEPT ![t].protected = protection] ELSE snaps
    /\ api' = [op |-> "update_protection", time |-> t, protection |-> protection,
               force |-> FALSE, ok |-> lock_dir_noblock_ok(t), before |-> snaps[t],
               holder |-> snap_lock[t], n |-> api.n + 1]
    /\ UNCHANGED <<refused, apiFrame>>

\* DataStore::remove_backup_dir(backup_dir, force) and its result
DataStore_remove_backup_dir(t, force) ==
    /\ api.n < MaxCalls
    /\ snaps' = remove_backup_dir(t, force)
    /\ refused' = remove_backup_dir_log(t, force)
    /\ api' = [op |-> "remove_backup_dir", time |-> t, protection |-> FALSE,
               force |-> force, ok |-> remove_backup_dir_ok(t, force),
               before |-> snaps[t], holder |-> snap_lock[t], n |-> api.n + 1]
    /\ UNCHANGED apiFrame

\* ------------------------------------------------------------------ gc_mutex of the instances
\* garbage_collection and garbage_collection_running on the DataStore
\* instances that lookup_datastore returned; every instance has a gc_mutex of
\* its own, the lock file of the chunk store is one per store

\* how often one thread calls garbage_collection
MaxGcCalls == 2

\* how often garbage_collection_running is called
MaxQueries == 2

\* the thread that asks garbage_collection_running
QueryId == "query"

\* the lookup whose instance a thread uses
LookupOf(g) == IF g = "g1" THEN "l1" ELSE "l2"

IgcIdle == [mutex |-> [i \in 1..MaxInstances |-> NoHolder],
            task |-> [g \in GcThreads |->
                        [pc |-> "idle", inst |-> 0, err |-> "none", calls |-> 0,
                         marked |-> 0, swept |-> 0]],
            query |-> [pc |-> "idle", inst |-> 0, ret |-> FALSE, calls |-> 0,
                       held_by |-> NoHolder]]

\* what the steps on the instances leave alone
igcFrame == <<now, chunks, snaps, snap_lock, shared_locks, gc_mutex, last_gc_status,
              gc, sess, groupVars, group_ret, manifestVars, cacheVars, env,
              cs, bad, run, ord, dl, api, dir, ap, call, lk>>

\* the gc tasks that are between try_lock and the end of the if-block
GcHolders(i) == {g \in GcThreads : igc.mutex[i] = g}

\* garbage_collection: if let Ok(ref mut _mutex) = self.gc_mutex.try_lock()
\* on the instance that the lookup of the thread returned, else bail!
instance_gc_try_lock(g) ==
    /\ igc.task[g].pc = "idle"
    /\ igc.task[g].calls < MaxGcCalls
    /\ lookups[LookupOf(g)].pc = "idle" /\ lookups[LookupOf(g)].ret # 0
    /\ LET i == lookups[LookupOf(g)].ret
       IN igc' = IF igc.mutex[i] = NoHolder
                 THEN [igc EXCEPT !.mutex[i] = g,
                                  !.task[g] = [@ EXCEPT !.pc = "locked", !.inst = i,
                                                        !.err = "none",
                                                        !.calls = @ + 1]]
                 ELSE [igc EXCEPT !.task[g] = [@ EXCEPT !.inst = i,
                                                        !.err = "already running/locked",
                                                        !.calls = @ + 1]]
    /\ UNCHANGED <<exclusive, igcFrame>>

\* garbage_collection: let _exclusive_lock = self.chunk_store.try_exclusive_lock()?
instance_gc_exclusive_lock(g) ==
    /\ igc.task[g].pc = "locked"
    /\ IF try_exclusive_lock
       THEN /\ exclusive' = TRUE
            /\ igc' = [igc EXCEPT !.task[g].pc = "mark"]
       ELSE /\ igc' = [igc EXCEPT !.task[g].pc = "idle",
                                  !.task[g].err = "exclusive lock",
                                  !.mutex[igc.task[g].inst] = NoHolder]
            /\ UNCHANGED exclusive
    /\ UNCHANGED igcFrame

\* garbage_collection: self.mark_used_chunks(..)?
instance_gc_mark(g) ==
    /\ igc.task[g].pc = "mark"
    /\ igc' = [igc EXCEPT !.task[g].pc = "sweep", !.task[g].marked = @ + 1]
    /\ UNCHANGED <<exclusive, igcFrame>>

\* garbage_collection: self.chunk_store.sweep_unused_chunks(..)?
instance_gc_sweep(g) ==
    /\ igc.task[g].pc = "sweep"
    /\ igc' = [igc EXCEPT !.task[g].pc = "done", !.task[g].swept = @ + 1]
    /\ UNCHANGED <<exclusive, igcFrame>>

\* garbage_collection: the end of the if-block drops the exclusive lock and
\* the guard of gc_mutex
instance_gc_return(g) ==
    /\ igc.task[g].pc = "done"
    /\ exclusive' = FALSE
    /\ igc' = [igc EXCEPT !.task[g].pc = "idle",
                          !.mutex[igc.task[g].inst] = NoHolder]
    /\ UNCHANGED igcFrame

\* garbage_collection_running: self.gc_mutex.try_lock() on an instance; the
\* guard of an Ok is a temporary of the match
garbage_collection_running_try_lock(i) ==
    /\ igc.query.pc = "idle"
    /\ igc.query.calls < MaxQueries
    /\ i <= instances
    /\ igc' = IF igc.mutex[i] = NoHolder
              THEN [igc EXCEPT !.mutex[i] = QueryId,
                               !.query = [@ EXCEPT !.pc = "matched", !.inst = i,
                                                   !.ret = FALSE, !.calls = @ + 1,
                                                   !.held_by = NoHolder]]
              ELSE [igc EXCEPT !.query = [@ EXCEPT !.inst = i, !.ret = TRUE,
                                                   !.calls = @ + 1,
                                                   !.held_by = igc.mutex[i]]]
    /\ UNCHANGED <<exclusive, igcFrame>>

\* garbage_collection_running: !matches!(.., Ok(_)) is evaluated, the
\* temporary guard is dropped and false is returned
garbage_collection_running_return ==
    /\ igc.query.pc = "matched"
    /\ igc' = [igc EXCEPT !.query.pc = "idle", !.mutex[igc.query.inst] = NoHolder]
    /\ UNCHANGED <<exclusive, igcFrame>>

\* ------------------------------------------------------------------ cleanup of a snapshot directory
\* DataStore::cleanup_backup_dir

\* how many calls are made
MaxCleanups == 2

MANIFEST_BLOB_NAME == "index.json.blob"

CLIENT_LOG_BLOB_NAME == "client.log.blob"

\* the names an entry of the directory may have: the blobs, two archives,
\* the protection marker and a subdirectory
EntryNames == {MANIFEST_BLOB_NAME, CLIENT_LOG_BLOB_NAME, "a.fidx", "b.didx",
               ".protected", "sub"}

\* nix::dir::Type of an entry; "none" when there is no such entry
NoEntries == [name \in EntryNames |-> "none"]

DirIdle == [entries |-> NoEntries, files |-> {}, before |-> NoEntries, calls |-> 0]

\* cleanup_backup_dir: wanted_files
wanted_files(manifest_files) ==
    {MANIFEST_BLOB_NAME, CLIENT_LOG_BLOB_NAME} \cup manifest_files

\* cleanup_backup_dir: the loop over read_subdir unlinks the entry
cleanup_unlinks(entries, manifest_files, name) ==
    /\ entries[name] = "File"
    /\ name \notin wanted_files(manifest_files)

\* cleanup_backup_dir(backup_dir, manifest)
cleanup_backup_dir ==
    /\ dir.calls < MaxCleanups
    /\ dir' = [dir EXCEPT
                 !.entries = [name \in EntryNames |->
                                IF cleanup_unlinks(dir.entries, dir.files, name)
                                THEN "none" ELSE dir.entries[name]],
                 !.before = dir.entries,
                 !.calls = @ + 1]
    /\ UNCHANGED <<mainVars, cs, bad, run, ord, dl, api, igc, ap, call, lk>>

\* the directories a call may find: the manifest blob is there, the
\* subdirectory is a directory, everything else is a regular file or
\* missing; the manifest lists some of the archives
DirInputs ==
    {[DirIdle EXCEPT !.entries = entries, !.files = files] :
        entries \in {e \in [EntryNames -> {"none", "File", "Dir"}] :
                        /\ e[MANIFEST_BLOB_NAME] = "File"
                        /\ e["sub"] # "File"
                        /\ \A name \in EntryNames \ {"sub"} : e[name] # "Dir"},
        files \in SUBSET {"a.fidx", "b.didx"}}

\* ------------------------------------------------------------------ one append request
\* dynamic_append and fixed_append on a session in any of its states

\* the longest digest-list and offset-list of an append request
MaxPairs == 3

PairLists(S) == UNION {[1..n -> S] : n \in 0..MaxPairs}

ApIdle == [e |-> EnvIdle, kind |-> "none", wid |-> 1, digest_list |-> <<>>,
           offset_list |-> <<>>, called |-> FALSE, err |-> "none", after |-> EnvIdle]

\* the sessions a request may meet: chunks are registered or not, no writer,
\* a dynamic writer (new, or with the one-byte chunk appended), a fixed
\* writer of two slots, or both; the session is Active or Finished
AppendEnvs ==
    LET dyn(index) == [name |-> "a.didx",
                       offset |-> IF index = <<>> THEN 0 ELSE 1,
                       chunk_count |-> Len(index), index |-> index]
        fix == [name |-> "a.fidx", size |-> chunk_size + 1, chunk_count |-> 0,
                index |-> [i \in 1..index_count(chunk_size + 1) |-> 0]]
        writers ==
            {[EnvIdle EXCEPT !.uid_counter = 1, !.file_names = {"a.didx"},
                             !.dynamic_writers[1] = dyn(index)] :
                index \in {<<>>, <<[end_offset |-> 1, digest |-> 2]>>}}
            \cup {[EnvIdle EXCEPT !.uid_counter = 2,
                                  !.file_names = {"a.didx", "a.fidx"},
                                  !.dynamic_writers[1] = dyn(<<>>),
                                  !.fixed_writers[2] = fix],
                  [EnvIdle EXCEPT !.uid_counter = 1, !.file_names = {"a.fidx"},
                                  !.fixed_writers[1] = fix],
                  EnvIdle}
    IN {[e EXCEPT !.known_chunks = known, !.state = state] :
           e \in writers,
           known \in {k \in [Digests -> {0, 1, chunk_size}] :
                         \A d \in Digests : k[d] \in {0, chunk_len(d)}},
           state \in {"Active", "Finished"}}

\* the handler of the request is called
append_request ==
    /\ ~ap.called
    /\ LET r == IF ap.kind = "dynamic"
                THEN dynamic_append_body(ap.e, ap.wid, ap.digest_list, ap.offset_list)
                ELSE fixed_append_body(ap.e, ap.wid, ap.digest_list, ap.offset_list)
       IN ap' = [ap EXCEPT !.called = TRUE, !.err = r.err, !.after = r.env]
    /\ UNCHANGED <<mainVars, cs, bad, run, ord, dl, api, igc, dir, call, lk>>

\* ------------------------------------------------------------------ calls that hold the snapshot lock
\* update_protection and remove_backup_dir(dir, false) step by step: the
\* guard of lock_dir_noblock is held from the lock to the return

\* how many calls one thread makes
MaxThreadCalls == 2

\* the threads that call update_protection and remove_backup_dir
ApiThreads == {"a1", "a2"}

CallIdle == [pc |-> "idle", op |-> "none", time |-> 0, protection |-> FALSE,
             ok |-> FALSE, n |-> 0]

CallInit == [a \in ApiThreads |-> CallIdle]

\* what a step of a call leaves alone
callFrame == <<now, chunks, shared_locks, sess, gcVars, ownerVars, group_ret,
               manifest_file, updaters, mreader, cacheVars, env, cs, bad, run, ord,
               dl, api, igc, dir, ap, lk>>

\* a call returns an error
call_err(a, op, t, protection) ==
    [pc |-> "idle", op |-> op, time |-> t, protection |-> protection,
     ok |-> FALSE, n |-> call[a].n + 1]

\* update_protection: lock_dir_noblock(&full_path, ..)?
update_protection_lock(a, t, protection) ==
    /\ call[a].pc = "idle" /\ call[a].n < MaxThreadCalls
    /\ IF lock_dir_noblock_ok(t)
       THEN /\ snap_lock' = [snap_lock EXCEPT ![t] = a]
            /\ call' = [call EXCEPT ![a] =
                          [pc |-> "protect", op |-> "update_protection", time |-> t,
                           protection |-> protection, ok |-> FALSE, n |-> call[a].n]]
       ELSE /\ call' = [call EXCEPT ![a] =
                          call_err(a, "update_protection", t, protection)]
            /\ UNCHANGED snap_lock
    /\ UNCHANGED <<snaps, refused, manifest_lock, callFrame>>

\* update_protection: File::create(protected_path) or remove_file(protected_path)
update_protection_file(a) ==
    /\ call[a].pc = "protect"
    /\ snaps' = [snaps EXCEPT ![call[a].time].protected = call[a].protection]
    /\ call' = [call EXCEPT ![a].pc = "return"]
    /\ UNCHANGED <<snap_lock, refused, manifest_lock, callFrame>>

\* remove_backup_dir(dir, false): lock_dir_noblock(..)? and lock_manifest(..)?
remove_backup_dir_lock(a, t) ==
    /\ call[a].pc = "idle" /\ call[a].n < MaxThreadCalls
    /\ IF lock_dir_noblock_ok(t) /\ lock_manifest_ok(t)
       THEN /\ snap_lock' = [snap_lock EXCEPT ![t] = a]
            /\ manifest_lock' = [manifest_lock EXCEPT ![t] = a]
            /\ call' = [call EXCEPT ![a] =
                          [pc |-> "check", op |-> "remove_backup_dir", time |-> t,
                           protection |-> FALSE, ok |-> FALSE, n |-> call[a].n]]
       ELSE /\ call' = [call EXCEPT ![a] =
                          call_err(a, "remove_backup_dir", t, FALSE)]
            /\ UNCHANGED <<snap_lock, manifest_lock>>
    /\ UNCHANGED <<snaps, refused, callFrame>>

\* remove_backup_dir: if backup_dir.is_protected(..) { bail!(..) }
remove_backup_dir_check(a) ==
    /\ call[a].pc = "check"
    /\ LET t == call[a].time
       IN IF is_protected(t)
          THEN /\ call' = [call EXCEPT ![a] = call_err(a, "remove_backup_dir", t, FALSE)]
               /\ snap_lock' = [snap_lock EXCEPT ![t] = NoHolder]
               /\ manifest_lock' = [manifest_lock EXCEPT ![t] = NoHolder]
               /\ refused' = refused \cup {<<t, FALSE>>}
          ELSE /\ call' = [call EXCEPT ![a].pc = "remove"]
               /\ UNCHANGED <<snap_lock, manifest_lock, refused>>
    /\ UNCHANGED <<snaps, callFrame>>

\* remove_backup_dir: std::fs::remove_dir_all(&full_path)
remove_backup_dir_all(a) ==
    /\ call[a].pc = "remove"
    /\ snaps' = [snaps EXCEPT ![call[a].time] = NoDir]
    /\ call' = [call EXCEPT ![a].pc = "return"]
    /\ UNCHANGED <<snap_lock, refused, manifest_lock, callFrame>>

\* Ok(()): the guards are dropped
call_return(a) ==
    /\ call[a].pc = "return"
    /\ snap_lock' = [snap_lock EXCEPT ![call[a].time] = NoHolder]
    /\ manifest_lock' = [manifest_lock EXCEPT ![call[a].time] =
                            IF @ = a THEN NoHolder ELSE @]
    /\ call' = [call EXCEPT ![a].pc = "idle", ![a].ok = TRUE, ![a].n = @ + 1]
    /\ UNCHANGED <<snaps, refused, callFrame>>

\* ------------------------------------------------------------------ the locks an operation takes
\* every operation as the list of the locks it takes, in the order of its
\* code; a lock is tried once, or waited for until the timeout

\* how often one thread calls its operation
MaxOpCalls == 1

\* one thread per operation, named by the operation it calls
OpThreads == {"remove_backup_group", "remove_backup_dir", "update_manifest",
              "update_protection", "backup", "garbage_collection"}

\* another process that takes the manifest lock file and may keep it
Extern == "extern"

LockNames == {"group", "snapshot", "manifest", "gc_mutex", "chunk_store"}

\* the locks of an operation: lock_dir_noblock, try_lock, try_shared_lock
\* and try_exclusive_lock return at once, lock_manifest waits for 5 seconds
LockProgram(op) ==
    CASE op = "remove_backup_group" ->
            <<[lock |-> "group", mode |-> "try"],
              [lock |-> "snapshot", mode |-> "try"],
              [lock |-> "manifest", mode |-> "timed"]>>
      [] op = "remove_backup_dir" ->
            <<[lock |-> "snapshot", mode |-> "try"],
              [lock |-> "manifest", mode |-> "timed"]>>
      [] op = "update_manifest" ->
            <<[lock |-> "manifest", mode |-> "timed"]>>
      [] op = "update_protection" ->
            <<[lock |-> "snapshot", mode |-> "try"]>>
      [] op = "backup" ->
            <<[lock |-> "group", mode |-> "try"],
              [lock |-> "snapshot", mode |-> "try"],
              [lock |-> "chunk_store", mode |-> "shared"]>>
      [] op = "garbage_collection" ->
            <<[lock |-> "gc_mutex", mode |-> "try"],
              [lock |-> "chunk_store", mode |-> "try"]>>

OpIdle == [pc |-> "idle", i |-> 1, ret |-> "none", calls |-> 0]

LkInit == [held |-> [l \in LockNames |-> {}],
           th |-> [t \in OpThreads |-> OpIdle]]

\* what a step of these calls leaves alone
lkFrame == <<now, chunks, snaps, snap_lock, shared_locks, sess, gcVars, groupVars,
             group_ret, manifest_lock, updaters, mreader, cacheVars, env, cs, bad,
             run, ord, dl, api, igc, dir, ap, call>>

\* the lock the thread asks for next
NextLock(t) == LockProgram(t)[lk.th[t].i]

\* the holder h has the lock l for itself
holds_exclusively(h, l) ==
    \/ h = Extern
    \/ \E i \in 1..Len(LockProgram(h)) :
          LockProgram(h)[i].lock = l /\ LockProgram(h)[i].mode # "shared"

\* the lock the thread asks for can be given to it
can_lock(t) ==
    IF NextLock(t).mode = "shared"
    THEN \A h \in lk.held[NextLock(t).lock] : ~holds_exclusively(h, NextLock(t).lock)
    ELSE lk.held[NextLock(t).lock] = {}

\* a lock_manifest that waits without a timeout
timed_lock_waits(t) == FALSE

\* open_backup_lockfile(&path, Some(Duration::from_secs(5)), true): the five
\* seconds have passed and the lock is still held by another
timed_lock_gives_up(t) == ~can_lock(t)

\* the locks without the guards of the thread
dropped(t) == [l \in LockNames |-> lk.held[l] \ {t}]

\* the call returns an error through `?`, its guards are dropped
op_fail(t) ==
    [held |-> dropped(t),
     th |-> [lk.th EXCEPT ![t] = [pc |-> "idle", i |-> 1, ret |-> "err",
                                  calls |-> @.calls + 1]]]

\* the thread gets the lock it asked for
op_acquired(t) ==
    [held |-> [lk.held EXCEPT ![NextLock(t).lock] = @ \cup {t}],
     th |-> [lk.th EXCEPT ![t] =
               IF @.i < Len(LockProgram(t))
               THEN [@ EXCEPT !.pc = "lock", !.i = @ + 1]
               ELSE [@ EXCEPT !.pc = IF t = "backup" THEN "session" ELSE "work"]]]

\* the operation is called
op_call(t) ==
    /\ lk.th[t].pc = "idle" /\ lk.th[t].calls < MaxOpCalls
    /\ lk' = [lk EXCEPT !.th[t] = [@ EXCEPT !.pc = "lock", !.i = 1, !.ret = "none"]]
    /\ UNCHANGED <<manifest_file, lkFrame>>

\* the next lock is asked for: it is given, or a try-lock returns the error,
\* or lock_manifest starts to wait
op_lock(t) ==
    /\ lk.th[t].pc = "lock"
    /\ lk' = IF can_lock(t) THEN op_acquired(t)
             ELSE IF NextLock(t).mode = "timed"
             THEN [lk EXCEPT !.th[t].pc = "wait"]
             ELSE op_fail(t)
    /\ UNCHANGED <<manifest_file, lkFrame>>

\* lock_manifest: the lock is released while the thread waits for it
op_wait_lock(t) ==
    /\ lk.th[t].pc = "wait"
    /\ can_lock(t)
    /\ lk' = op_acquired(t)
    /\ UNCHANGED <<manifest_file, lkFrame>>

\* lock_manifest: "unable to acquire manifest lock" after the timeout
op_wait_timeout(t) ==
    /\ lk.th[t].pc = "wait"
    /\ timed_lock_gives_up(t)
    /\ lk' = op_fail(t)
    /\ UNCHANGED <<manifest_file, lkFrame>>

\* the body of the operation under its locks, and the return that drops the
\* guards; update_manifest replaces the manifest
op_work(t) ==
    /\ lk.th[t].pc = "work"
    /\ lk' = [held |-> dropped(t),
              th |-> [lk.th EXCEPT ![t] = [pc |-> "idle", i |-> 1, ret |-> "ok",
                                           calls |-> @.calls + 1]]]
    /\ manifest_file' = IF t = "update_manifest"
                        THEN [manifest_file EXCEPT ![ManifestSnap] = Append(@, t)]
                        ELSE manifest_file
    /\ UNCHANGED lkFrame

\* the client ends its backup session, the guards of the session are dropped
op_session_end ==
    /\ lk.th["backup"].pc = "session"
    /\ lk' = [held |-> dropped("backup"),
              th |-> [lk.th EXCEPT !["backup"] = [pc |-> "idle", i |-> 1, ret |-> "ok",
                                                  calls |-> @.calls + 1]]]
    /\ UNCHANGED <<manifest_file, lkFrame>>

\* another process takes the manifest lock file
extern_lock ==
    /\ lk.held["manifest"] = {}
    /\ lk' = [lk EXCEPT !.held["manifest"] = {Extern}]
    /\ UNCHANGED <<manifest_file, lkFrame>>

\* the other process releases the manifest lock file
extern_unlock ==
    /\ Extern \in lk.held["manifest"]
    /\ lk' = [lk EXCEPT !.held["manifest"] = @ \ {Extern}]
    /\ UNCHANGED <<manifest_file, lkFrame>>

\* the steps a thread takes on its own once its operation is called
OpStep(t) == op_lock(t) \/ op_wait_lock(t) \/ op_wait_timeout(t) \/ op_work(t)

MoreInit == dl = DlIdle /\ api = ApiIdle /\ igc = IgcIdle /\ dir = DirIdle /\ ap = ApIdle /\ call = CallInit /\ lk = LkInit

AuxInit == cs = CsIdle /\ bad = NoBad /\ run = RunIdle /\ ord = OrdIdle /\ MoreInit

InitGC ==
    /\ now = StartTime
    /\ snaps = [t \in BackupTimes |-> IF t = 1 THEN Finished({1}) ELSE NoDir]
    /\ chunks \in [Digests -> {NoChunk, 0, 1}]
    /\ chunks[1] # NoChunk
    /\ snap_lock = [t \in BackupTimes |-> NoHolder]
    /\ shared_locks = [h \in Lockers |-> NoLock]
    /\ exclusive = FALSE
    /\ gc_mutex = NoHolder
    /\ last_gc_status = GcStatusDefault
    /\ gc = [g \in GcThreads |-> GcIdle]
    /\ sess = [r \in Requests |-> SessInit(MaxBackupTime)]
    /\ group_exists = TRUE
    /\ owner = [user |-> "alice", token |-> "none"]
    /\ group_lock = NoHolder
    /\ callers = [c \in CallerIds |-> CallerIdle]
    /\ forced = 0
    /\ refused = {}
    /\ group_ret = "none"
    /\ ManifestInit
    /\ CacheInit
    /\ env = EnvIdle /\ AuxInit

\* the steps of one thread in garbage_collection
GcRun(g) ==
    \/ garbage_collection_start(g)
    \/ mark_used_chunks_list(g)
    \/ mark_used_chunks_image(g)
    \/ sweep_unused_chunks_step(g)
    \/ garbage_collection_finish(g)

\* the upgrade request of a client
Upgrade(r) ==
    \/ upgrade_check(r)
    \/ upgrade_create_dir(r)
    \/ upgrade_lock_dir(r)

\* the requests of a client in its session
Session(r) ==
    \/ create_fixed_index(r)
    \/ fixed_chunk_index(r)
    \/ \E d \in Digests : upload_fixed_chunk(r, d)
    \/ \E d \in Digests : fixed_append(r, d)
    \/ close_fixed_index(r)
    \/ finish_backup(r)
    \/ session_end_unfinished(r)

NextGC ==
    \/ GcRun("g1")
    \/ Upgrade("r1")
    \/ Session("r1")
    \/ \E t \in BackupTimes : api_remove_backup_dir(t)
    \/ Tick
    \/ TickDay

SpecGC == InitGC /\ [][NextGC]_vars

\* ------------------------------------------------------------------ two garbage collections

\* two threads call garbage_collection while a session and a reader take and
\* drop their shared locks
NextSweep ==
    \/ \E g \in GcThreads : GcRun(g) \/ garbage_collection_refused(g)
    \/ Upgrade("r1")
    \/ finish_backup("r1")
    \/ session_end_unfinished("r1")
    \/ reader_lock
    \/ reader_unlock
    \/ Tick
    \/ TickDay

SpecSweep == InitGC /\ [][NextSweep]_vars

\* ------------------------------------------------------------------ snapshots of one group

\* an empty group or a group with one finished snapshot; every request asks
\* for a backup_time of its own choice
InitSnap ==
    /\ now = StartTime
    /\ snaps \in {[t \in BackupTimes |-> NoDir],
                  [t \in BackupTimes |-> IF t = 1 THEN Finished({1}) ELSE NoDir]}
    /\ chunks = [d \in Digests |-> IF d = 1 THEN 0 ELSE NoChunk]
    /\ snap_lock = [t \in BackupTimes |-> NoHolder]
    /\ shared_locks = [h \in Lockers |-> NoLock]
    /\ exclusive = FALSE
    /\ gc_mutex = NoHolder
    /\ last_gc_status = GcStatusDefault
    /\ gc = [g \in GcThreads |-> GcIdle]
    /\ sess \in {[r \in Requests |-> SessInit(tm[r])] : tm \in [Requests -> BackupTimes]}
    /\ group_exists = TRUE
    /\ owner = [user |-> "alice", token |-> "none"]
    /\ group_lock = NoHolder
    /\ callers = [c \in CallerIds |-> CallerIdle]
    /\ forced = 0
    /\ refused = {}
    /\ group_ret = "none"
    /\ ManifestInit
    /\ CacheInit
    /\ env = EnvIdle /\ AuxInit

\* two upgrade requests, forget and protection calls on the snapshots
NextSnap ==
    \/ \E r \in Requests : Upgrade(r) \/ upgrade_bail(r)
    \/ \E r \in Requests : finish_backup(r) \/ session_end_unfinished(r)
    \/ \E t \in BackupTimes : api_remove_backup_dir(t)
    \/ \E t \in BackupTimes, protection \in BOOLEAN : update_protection(t, protection)

SpecSnap == InitSnap /\ [][NextSnap]_vars

\* ------------------------------------------------------------------ owner of the group

\* alice@pbs, bob@pbs and two API tokens of alice@pbs
Authids == {[user |-> "alice", token |-> "none"], [user |-> "bob", token |-> "none"],
            [user |-> "alice", token |-> "t1"], [user |-> "alice", token |-> "t2"]}

\* Authid::is_token
is_token(a) == a.token # "none"

\* Authid::from(owner.user().clone()): the user a token belongs to
user_authid(a) == [user |-> a.user, token |-> "none"]

\* a check that takes every identity of the owning user
check_backup_owner_same_user(owner_id, auth_id) == owner_id.user = auth_id.user

\* check_backup_owner returns Ok
check_backup_owner(owner_id, auth_id) ==
    \/ owner_id = auth_id
    \/ (is_token(owner_id) /\ user_authid(owner_id) = auth_id)

\* get_owner returns Ok: the owner file can be read
get_owner_ok == group_exists /\ owner # NoOwner

\* owns_backup: Ok(check_backup_owner(&owner, auth_id).is_ok()), "error" when
\* get_owner fails
owns_backup(auth_id) ==
    IF ~get_owner_ok THEN "error"
    ELSE IF check_backup_owner(owner, auth_id) THEN "true" ELSE "false"

\* set_owner returns Ok: create_new fails on a file that exists
set_owner_ok(o, force) == group_exists /\ (force \/ o = NoOwner)

\* a set_owner that opens the file with create(true) whatever force is
set_owner_truncate(o, auth_id, force) == IF group_exists THEN auth_id ELSE o

\* the owner file after set_owner(group, auth_id, force)
set_owner(o, auth_id, force) == IF set_owner_ok(o, force) THEN auth_id ELSE o

\* a thread calls create_locked_backup_group(group, auth_id)
create_locked_backup_group_call(c, a) ==
    /\ callers[c].pc = "idle"
    /\ callers' = [callers EXCEPT ![c] = [CallerIdle EXCEPT !.pc = "mkdir", !.auth = a]]
    /\ UNCHANGED <<now, chunks, snaps, snap_lock, shared_locks, sess, gcVars,
                   group_exists, owner, group_lock, forced, refused, extVars>>

\* create_locked_backup_group: std::fs::create_dir(&full_path)
group_create_dir(c) ==
    /\ callers[c].pc = "mkdir"
    /\ group_exists' = TRUE
    /\ callers' = [callers EXCEPT ![c].created = ~group_exists, ![c].pc = "lock"]
    /\ UNCHANGED <<now, chunks, snaps, snap_lock, shared_locks, sess, gcVars,
                   owner, group_lock, forced, refused, extVars>>

\* create_locked_backup_group: lock_dir_noblock(&full_path, ..)?
group_lock_dir(c) ==
    /\ callers[c].pc = "lock"
    /\ IF group_exists /\ group_lock = NoHolder
       THEN /\ group_lock' = c
            /\ callers' = [callers EXCEPT ![c].pc = IF callers[c].created
                                                    THEN "set_owner" ELSE "get_owner"]
       ELSE /\ callers' = [callers EXCEPT ![c].pc = "idle", ![c].verdict = "error"]
            /\ UNCHANGED group_lock
    /\ UNCHANGED <<now, chunks, snaps, snap_lock, shared_locks, sess, gcVars,
                   group_exists, owner, forced, refused, extVars>>

\* create_locked_backup_group: self.set_owner(backup_group, auth_id, false)?
group_set_owner(c) ==
    /\ callers[c].pc = "set_owner"
    /\ owner' = set_owner(owner, callers[c].auth, FALSE)
    /\ IF set_owner_ok(owner, FALSE)
       THEN /\ callers' = [callers EXCEPT ![c].pc = "get_owner"]
            /\ UNCHANGED group_lock
       ELSE /\ callers' = [callers EXCEPT ![c].pc = "idle", ![c].verdict = "error"]
            /\ group_lock' = NoHolder
    /\ UNCHANGED <<now, chunks, snaps, snap_lock, shared_locks, sess, gcVars,
                   group_exists, forced, refused, extVars>>

\* create_locked_backup_group: let owner = self.get_owner(backup_group)?
group_get_owner(c) ==
    /\ callers[c].pc = "get_owner"
    /\ IF get_owner_ok
       THEN /\ callers' = [callers EXCEPT ![c].res = owner, ![c].pc = "check"]
            /\ UNCHANGED group_lock
       ELSE /\ callers' = [callers EXCEPT ![c].pc = "idle", ![c].verdict = "error"]
            /\ group_lock' = NoHolder
    /\ UNCHANGED <<now, chunks, snaps, snap_lock, shared_locks, sess, gcVars,
                   group_exists, owner, forced, refused, extVars>>

\* the caller asks owns_backup(group, auth_id) and drops the guard
group_owns_backup(c) ==
    /\ callers[c].pc = "check"
    /\ callers' = [callers EXCEPT ![c].verdict = owns_backup(callers[c].auth),
                                  ![c].pc = "idle"]
    /\ group_lock' = NoHolder
    /\ UNCHANGED <<now, chunks, snaps, snap_lock, shared_locks, sess, gcVars,
                   group_exists, owner, forced, refused, extVars>>

\* the change-owner call: set_owner(group, new_owner, true)
set_owner_force(a) ==
    /\ forced < MaxForced
    /\ set_owner_ok(owner, TRUE)
    /\ owner' = set_owner(owner, a, TRUE)
    /\ forced' = forced + 1
    /\ UNCHANGED <<now, chunks, snaps, snap_lock, shared_locks, sess, gcVars,
                   group_exists, group_lock, callers, refused, extVars>>

\* remove_backup_group: the snapshots that are not protected
removable == {t \in BackupTimes : snaps[t].exists /\ ~is_protected(t)}

\* remove_backup_group: removed_all that is true whatever the snapshots are
removed_all_always == TRUE

\* remove_backup_group: removed_all stays true
removed_all == \A t \in BackupTimes : ~is_protected(t)

\* remove_backup_group: the group lock is taken (an error when it is held or
\* the directory is missing), the snapshots that are not protected are
\* removed with remove_backup_dir(dir, false), and the group directory with
\* its owner file when removed_all; a snapshot whose lock is held ends the
\* call with an error, those removed that were listed before it
remove_backup_group ==
    /\ group_ret = "none"
    /\ LET locked == {t \in removable : snap_lock[t] # NoHolder}
       IN IF ~(group_exists /\ group_lock = NoHolder)
          THEN /\ group_ret' = "error"
               /\ UNCHANGED <<snaps, group_exists, owner>>
          ELSE IF locked = {}
          THEN /\ snaps' = [t \in BackupTimes |->
                              IF t \in removable \/ removed_all THEN NoDir ELSE snaps[t]]
               /\ group_exists' = ~removed_all
               /\ owner' = IF removed_all THEN NoOwner ELSE owner
               /\ group_ret' = IF removed_all THEN "true" ELSE "false"
          ELSE /\ \E S \in SUBSET (removable \ locked) :
                     snaps' = [t \in BackupTimes |-> IF t \in S THEN NoDir ELSE snaps[t]]
               /\ group_ret' = "error"
               /\ UNCHANGED <<group_exists, owner>>
    /\ UNCHANGED <<now, chunks, snap_lock, shared_locks, sess, gcVars,
                   group_lock, callers, forced, refused, manifestVars, cacheVars, env, auxVars>>

\* the caller of remove_backup_group has its result
remove_backup_group_return ==
    /\ group_ret # "none"
    /\ group_ret' = "none"
    /\ UNCHANGED <<now, chunks, snaps, snap_lock, shared_locks, sess, gcVars,
                   groupVars, manifestVars, cacheVars, env, auxVars>>

\* no group, or a group of alice@pbs with one finished snapshot that may be
\* protected
InitOwner ==
    /\ now = StartTime
    /\ \/ /\ group_exists = FALSE
          /\ owner = NoOwner
          /\ snaps = [t \in BackupTimes |-> NoDir]
       \/ /\ group_exists = TRUE
          /\ owner = [user |-> "alice", token |-> "none"]
          /\ \E p \in BOOLEAN :
                snaps = [t \in BackupTimes |->
                           IF t = 1 THEN [Finished({1}) EXCEPT !.protected = p] ELSE NoDir]
    /\ chunks = [d \in Digests |-> IF d = 1 THEN 0 ELSE NoChunk]
    /\ snap_lock = [t \in BackupTimes |-> NoHolder]
    /\ shared_locks = [h \in Lockers |-> NoLock]
    /\ exclusive = FALSE
    /\ gc_mutex = NoHolder
    /\ last_gc_status = GcStatusDefault
    /\ gc = [g \in GcThreads |-> GcIdle]
    /\ sess = [r \in Requests |-> SessInit(MaxBackupTime)]
    /\ group_lock = NoHolder
    /\ callers = [c \in CallerIds |-> CallerIdle]
    /\ forced = 0
    /\ refused = {}
    /\ group_ret = "none"
    /\ ManifestInit
    /\ CacheInit
    /\ env = EnvIdle /\ AuxInit

\* the steps of one thread in create_locked_backup_group
GroupCall(c) ==
    \/ \E a \in Authids : create_locked_backup_group_call(c, a)
    \/ group_create_dir(c)
    \/ group_lock_dir(c)
    \/ group_set_owner(c)
    \/ group_get_owner(c)
    \/ group_owns_backup(c)

NextOwner ==
    \/ \E c \in CallerIds : GroupCall(c)
    \/ \E a \in Authids : set_owner_force(a)
    \/ remove_backup_group
    \/ remove_backup_group_return

SpecOwner == InitOwner /\ [][NextOwner]_vars

\* ------------------------------------------------------------------ removal of the group

\* a group of alice@pbs whose snapshot 1 may be missing, finished or finished
\* and protected; one client will ask for a backup at MaxBackupTime
InitGroup ==
    /\ now = StartTime
    /\ \E st \in {"missing", "finished", "protected"} :
          snaps = [t \in BackupTimes |->
                     IF t = 1 /\ st # "missing"
                     THEN [Finished({1}) EXCEPT !.protected = (st = "protected")]
                     ELSE NoDir]
    /\ chunks = [d \in Digests |-> IF d = 1 THEN 0 ELSE NoChunk]
    /\ snap_lock = [t \in BackupTimes |-> NoHolder]
    /\ shared_locks = [h \in Lockers |-> NoLock]
    /\ exclusive = FALSE
    /\ gc_mutex = NoHolder
    /\ last_gc_status = GcStatusDefault
    /\ gc = [g \in GcThreads |-> GcIdle]
    /\ sess = [r \in Requests |-> SessInit(MaxBackupTime)]
    /\ group_exists = TRUE
    /\ owner = [user |-> "alice", token |-> "none"]
    /\ group_lock = NoHolder
    /\ callers = [c \in CallerIds |-> CallerIdle]
    /\ forced = 0
    /\ refused = {}
    /\ group_ret = "none"
    /\ ManifestInit
    /\ CacheInit
    /\ env = EnvIdle /\ AuxInit

\* remove_backup_group next to a backup session, protection calls and a
\* thread in create_locked_backup_group
NextGroup ==
    \/ remove_backup_group
    \/ remove_backup_group_return
    \/ Upgrade("r1")
    \/ finish_backup("r1")
    \/ session_end_unfinished("r1")
    \/ \E t \in BackupTimes, protection \in BOOLEAN : update_protection(t, protection)
    \/ GroupCall("c1")

SpecGroup == InitGroup /\ [][NextGroup]_vars

\* ------------------------------------------------------------------ updates of the manifest

\* two threads update the manifest of the finished snapshot 1, a reader loads
\* it and a client may remove the snapshot
NextManifest ==
    \/ \E u \in UpdaterIds : UpdateManifest(u)
    \/ load_manifest
    \/ api_remove_backup_dir(ManifestSnap)

SpecManifest == InitGC /\ [][NextManifest]_vars

\* ------------------------------------------------------------------ lookups of the datastore

InitCache == InitGC /\ chunks = [d \in Digests |-> 0]

\* two threads look the datastore up while the configuration changes and
\* time passes
NextCache ==
    \/ \E l \in LookupIds : lookup_datastore_read(l) \/ lookup_datastore_locked(l)
    \/ increase_datastore_generation
    \/ Tick
    \/ TickDay

SpecCache == InitCache /\ [][NextCache]_vars

\* ------------------------------------------------------------------ one backup session

\* the sizes a client gives to close
CloseSizes == {chunk_size, chunk_size + 1}

\* the file lists a manifest may declare
Declared == {{"a.didx"}}

\* what select! returns: the connection ended, or it failed or was aborted
ConnResults == {"Ok", "Err"}

\* a session that was upgraded for the new snapshot SessionSnap, with or
\* without a last backup; it holds the snapshot lock and its shared chunk
\* store lock
InitSession ==
    /\ now = StartTime
    /\ \E last \in {0, 1} :
          /\ snaps = [t \in BackupTimes |->
                        IF t = SessionSnap THEN EmptyDir
                        ELSE IF t = last THEN Finished({1}) ELSE NoDir]
          /\ env = [EnvIdle EXCEPT !.last_backup = last]
          /\ sess = [r \in Requests |->
                       IF r = SessionId
                       THEN [SessInit(SessionSnap) EXCEPT !.pc = "active",
                                                          !.is_new = TRUE,
                                                          !.last_backup = last]
                       ELSE SessInit(SessionSnap)]
    /\ chunks = [d \in Digests |-> IF d = 1 THEN 0 ELSE NoChunk]
    /\ snap_lock = [t \in BackupTimes |->
                      IF t = SessionSnap THEN SessionId ELSE NoHolder]
    /\ shared_locks = [h \in Lockers |-> IF h = SessionId THEN StartTime ELSE NoLock]
    /\ exclusive = FALSE
    /\ gc_mutex = NoHolder
    /\ last_gc_status = GcStatusDefault
    /\ gc = [g \in GcThreads |-> GcIdle]
    /\ group_exists = TRUE
    /\ owner = [user |-> "alice", token |-> "none"]
    /\ group_lock = NoHolder
    /\ callers = [c \in CallerIds |-> CallerIdle]
    /\ forced = 0
    /\ refused = {}
    /\ group_ret = "none"
    /\ ManifestInit
    /\ CacheInit
    /\ AuxInit

\* the requests of the client, the end of the connection, and a client that
\* sets or clears the protection of the snapshot
NextSession ==
    \/ \E name \in ArchiveNames : dynamic_chunk_index(name)
    \/ \E d \in Digests : upload_dynamic_chunk(d)
    \/ \E declared \in Declared : upload_blob(declared)
    \/ \E name \in ArchiveNames : create_dynamic_index(name)
    \/ \E name \in ArchiveNames, size \in ImageSizes :
          API_METHOD_CREATE_FIXED_INDEX(name, size)
    \/ \E wid \in Wids, digest_list \in Lists(Digests), offset_list \in Lists(Offsets) :
          dynamic_append(wid, digest_list, offset_list)
    \/ \E wid \in Wids, digest_list \in Lists(Digests), offset_list \in Lists(Offsets) :
          API_METHOD_FIXED_APPEND(wid, digest_list, offset_list)
    \/ \E wid \in Wids, chunk_count \in 1..MaxEntries, size \in CloseSizes,
          csum \in Csums : close_dynamic_index(wid, chunk_count, size, csum)
    \/ \E wid \in Wids, chunk_count \in 1..MaxEntries, size \in CloseSizes,
          csum \in Csums : API_METHOD_CLOSE_FIXED_INDEX(wid, chunk_count, size, csum)
    \/ finish
    \/ \E res \in ConnResults : worker_end(res)
    \/ \E protection \in BOOLEAN : update_protection(SessionSnap, protection)

SpecSession == InitSession /\ [][NextSession]_vars

\* the images of the store: a protected snapshot, and perhaps a second one;
\* any of the chunks may be missing, and a chunk may have files .bad
InitRun ==
    /\ now = StartTime
    /\ \E second \in {NoDir, Finished({1, 2})} :
          snaps = [t \in BackupTimes |->
                     IF t = 1 THEN [Finished({2}) EXCEPT !.protected = TRUE]
                     ELSE IF t = 2 THEN second ELSE NoDir]
    /\ chunks \in [Digests -> {NoChunk, 0, 1}]
    /\ \E b \in {NoChunk, 0} :
          bad = [NoBad EXCEPT ![2] = [i \in BadExts |-> IF i \in {0, 9} THEN b ELSE NoChunk]]
    /\ run = [RunIdle EXCEPT !.shadow = chunks, !.trial = chunks]
    /\ cs = CsIdle
    /\ ord = OrdIdle
    /\ MoreInit
    /\ snap_lock = [t \in BackupTimes |-> NoHolder]
    /\ shared_locks = [h \in Lockers |-> NoLock]
    /\ exclusive = FALSE
    /\ gc_mutex = NoHolder
    /\ last_gc_status = GcStatusZero
    /\ gc = [g \in GcThreads |-> GcIdle]
    /\ sess = [r \in Requests |-> SessInit(MaxBackupTime)]
    /\ group_exists = TRUE
    /\ owner = [user |-> "alice", token |-> "none"]
    /\ group_lock = NoHolder
    /\ callers = [c \in CallerIds |-> CallerIdle]
    /\ forced = 0
    /\ refused = {}
    /\ group_ret = "none"
    /\ ManifestInit
    /\ CacheInit
    /\ env = EnvIdle

\* the task runs, is cancelled or not, and runs again, while time passes
NextCancel ==
    \/ garbage_collection_enter
    \/ list_images_walk(NoWalkError)
    \/ mark_used_chunks_open("ok")
    \/ index_mark_used_chunks_pos
    \/ sweep_unused_chunks_chunk
    \/ garbage_collection_return
    \/ \E signal \in {"abort", "shutdown"} : abort_request(signal)
    \/ Tick
    \/ TickDay

SpecCancel == InitRun /\ [][NextCancel]_vars

\* the task runs while the walk and the index files may fail, a snapshot is
\* removed, an old daemon holds the exclusive lock, and time passes
NextRun ==
    \/ garbage_collection_enter
    \/ \E walk \in {NoWalkError} \cup WalkErrors : list_images_walk(walk)
    \/ \E outcome \in OpenOutcomes : mark_used_chunks_open(outcome)
    \/ index_mark_used_chunks_pos
    \/ sweep_unused_chunks_chunk
    \/ garbage_collection_return
    \/ old_daemon_lock
    \/ old_daemon_unlock
    \/ \E t \in BackupTimes : api_remove_backup_dir(t)
    \/ Tick

SpecRun == InitRun /\ [][NextRun]_vars

\* a call of get_chunks_in_order with any of the inputs
InitOrder ==
    /\ \E o \in OrdInputs : ord = o
    /\ cs = CsIdle /\ bad = NoBad /\ run = RunIdle /\ MoreInit
    /\ now = StartTime
    /\ snaps = [t \in BackupTimes |-> IF t = 1 THEN Finished({1}) ELSE NoDir]
    /\ chunks = [d \in Digests |-> 0]
    /\ snap_lock = [t \in BackupTimes |-> NoHolder]
    /\ shared_locks = [h \in Lockers |-> NoLock]
    /\ exclusive = FALSE
    /\ gc_mutex = NoHolder
    /\ last_gc_status = GcStatusDefault
    /\ gc = [g \in GcThreads |-> GcIdle]
    /\ sess = [r \in Requests |-> SessInit(MaxBackupTime)]
    /\ group_exists = TRUE
    /\ owner = [user |-> "alice", token |-> "none"]
    /\ group_lock = NoHolder
    /\ callers = [c \in CallerIds |-> CallerIdle]
    /\ forced = 0
    /\ refused = {}
    /\ group_ret = "none"
    /\ ManifestInit
    /\ CacheInit
    /\ env = EnvIdle

SpecOrder == InitOrder /\ [][get_chunks_in_order]_vars

\* a session with or without a last backup, whose index files are any of the
\* inputs; chunks may be registered already, and the session may be finished
InitDownload ==
    /\ \E last \in {0, 1}, known \in [Digests -> {0, 1}], state \in {"Active", "Finished"} :
          env = [EnvIdle EXCEPT !.last_backup = last, !.known_chunks = known,
                                !.state = state]
    /\ \E fixed \in FixedIndexFiles, dynamic \in DynamicIndexFiles :
          dl = [DlIdle EXCEPT !.fixed = fixed, !.dynamic = dynamic]
    /\ cs = CsIdle /\ bad = NoBad /\ run = RunIdle /\ ord = OrdIdle /\ api = ApiIdle
    /\ igc = IgcIdle /\ dir = DirIdle /\ ap = ApIdle /\ call = CallInit /\ lk = LkInit
    /\ now = StartTime
    /\ snaps = [t \in BackupTimes |-> IF t = 1 THEN Finished({1}) ELSE NoDir]
    /\ chunks = [d \in Digests |-> 0]
    /\ snap_lock = [t \in BackupTimes |-> NoHolder]
    /\ shared_locks = [h \in Lockers |-> NoLock]
    /\ exclusive = FALSE
    /\ gc_mutex = NoHolder
    /\ last_gc_status = GcStatusDefault
    /\ gc = [g \in GcThreads |-> GcIdle]
    /\ sess = [r \in Requests |-> SessInit(MaxBackupTime)]
    /\ group_exists = TRUE
    /\ owner = [user |-> "alice", token |-> "none"]
    /\ group_lock = NoHolder
    /\ callers = [c \in CallerIds |-> CallerIdle]
    /\ forced = 0
    /\ refused = {}
    /\ group_ret = "none"
    /\ ManifestInit
    /\ CacheInit

NextDownload ==
    \/ \E name \in ArchiveNames : API_METHOD_FIXED_CHUNK_INDEX(name)
    \/ \E name \in ArchiveNames : API_METHOD_DYNAMIC_CHUNK_INDEX(name)

SpecDownload == InitDownload /\ [][NextDownload]_vars

\* a group with a finished snapshot that may be protected; two requests ask
\* for the same new snapshot
InitProtect ==
    /\ \E protected \in BOOLEAN :
          snaps = [t \in BackupTimes |->
                     IF t = 1 THEN [Finished({1}) EXCEPT !.protected = protected]
                     ELSE NoDir]
    /\ now = StartTime
    /\ chunks = [d \in Digests |-> 0]
    /\ snap_lock = [t \in BackupTimes |-> NoHolder]
    /\ shared_locks = [h \in Lockers |-> NoLock]
    /\ exclusive = FALSE
    /\ gc_mutex = NoHolder
    /\ last_gc_status = GcStatusDefault
    /\ gc = [g \in GcThreads |-> GcIdle]
    /\ sess = [r \in Requests |-> SessInit(MaxBackupTime)]
    /\ group_exists = TRUE
    /\ owner = [user |-> "alice", token |-> "none"]
    /\ group_lock = NoHolder
    /\ callers = [c \in CallerIds |-> CallerIdle]
    /\ forced = 0
    /\ refused = {}
    /\ group_ret = "none"
    /\ ManifestInit
    /\ CacheInit
    /\ env = EnvIdle /\ AuxInit

\* the sessions write and end while clients set and clear the protection of
\* the snapshots and forget them
NextProtect ==
    \/ \E r \in Requests : Upgrade(r) \/ upgrade_bail(r)
    \/ create_fixed_index("r1")
    \/ \E d \in Digests : upload_fixed_chunk("r1", d)
    \/ \E d \in Digests : fixed_append("r1", d)
    \/ close_fixed_index("r1")
    \/ \E r \in Requests : finish_backup(r) \/ session_end_unfinished(r)
    \/ \E t \in BackupTimes, protection \in BOOLEAN :
          DataStore_update_protection(t, protection)
    \/ \E t \in BackupTimes : DataStore_remove_backup_dir(t, FALSE)

SpecProtect == InitProtect /\ [][NextProtect]_vars

\* two sessions ask for the same snapshot and write it while two threads set
\* and clear the protection of the snapshots and forget them
NextExclude ==
    \/ \E r \in Requests : Upgrade(r) \/ upgrade_bail(r)
    \/ \E r \in Requests : finish_backup(r) \/ session_end_unfinished(r)
    \/ \E a \in ApiThreads, t \in BackupTimes, protection \in BOOLEAN :
          update_protection_lock(a, t, protection)
    \/ \E a \in ApiThreads : update_protection_file(a)
    \/ \E a \in ApiThreads, t \in BackupTimes : remove_backup_dir_lock(a, t)
    \/ \E a \in ApiThreads : remove_backup_dir_check(a)
    \/ \E a \in ApiThreads : remove_backup_dir_all(a)
    \/ \E a \in ApiThreads : call_return(a)

SpecExclude == InitProtect /\ [][NextExclude]_vars

\* every operation is called by a thread of its own; the client of the
\* session and the other process are not bound to make their next step
NextTerminate ==
    \/ \E t \in OpThreads : op_call(t)
    \/ \E t \in OpThreads : op_lock(t)
    \/ \E t \in OpThreads : op_wait_lock(t)
    \/ \E t \in OpThreads : op_wait_timeout(t)
    \/ \E t \in OpThreads : op_work(t)
    \/ op_session_end
    \/ extern_lock
    \/ extern_unlock

\* a thread that is in a call takes its next step
SpecTerminate ==
    /\ InitCache
    /\ [][NextTerminate]_vars
    /\ \A t \in OpThreads : WF_vars(OpStep(t))

\* threads call create_locked_backup_group on a group that does not exist
InitCreate == InitOwner /\ ~group_exists

SpecCreate == InitCreate /\ [][\E c \in CallerIds : GroupCall(c)]_vars

\* two threads look the datastore up and collect garbage on the instance
\* they got, the configuration changes, and a thread asks whether a garbage
\* collection is running
NextInstances ==
    \/ \E l \in LookupIds : lookup_datastore_read(l) \/ lookup_datastore_locked(l)
    \/ increase_datastore_generation
    \/ \E g \in GcThreads : \/ instance_gc_try_lock(g)
                             \/ instance_gc_exclusive_lock(g)
                             \/ instance_gc_mark(g)
                             \/ instance_gc_sweep(g)
                             \/ instance_gc_return(g)
    \/ \E i \in 1..MaxInstances : garbage_collection_running_try_lock(i)
    \/ garbage_collection_running_return

SpecInstances == InitCache /\ [][NextInstances]_vars

\* a snapshot directory with any of the entries
InitCleanup ==
    /\ \E d \in DirInputs : dir = d
    /\ cs = CsIdle /\ bad = NoBad /\ run = RunIdle /\ ord = OrdIdle
    /\ dl = DlIdle /\ api = ApiIdle /\ igc = IgcIdle /\ ap = ApIdle /\ call = CallInit /\ lk = LkInit
    /\ now = StartTime
    /\ snaps = [t \in BackupTimes |-> IF t = 1 THEN Finished({1}) ELSE NoDir]
    /\ chunks = [d \in Digests |-> 0]
    /\ snap_lock = [t \in BackupTimes |-> NoHolder]
    /\ shared_locks = [h \in Lockers |-> NoLock]
    /\ exclusive = FALSE
    /\ gc_mutex = NoHolder
    /\ last_gc_status = GcStatusDefault
    /\ gc = [g \in GcThreads |-> GcIdle]
    /\ sess = [r \in Requests |-> SessInit(MaxBackupTime)]
    /\ group_exists = TRUE
    /\ owner = [user |-> "alice", token |-> "none"]
    /\ group_lock = NoHolder
    /\ callers = [c \in CallerIds |-> CallerIdle]
    /\ forced = 0
    /\ refused = {}
    /\ group_ret = "none"
    /\ ManifestInit
    /\ CacheInit
    /\ env = EnvIdle

SpecCleanup == InitCleanup /\ [][cleanup_backup_dir]_vars

\* two upgrade requests and their sessions, nothing else
NextUpgrade ==
    \/ \E r \in Requests : Upgrade(r) \/ upgrade_bail(r)
    \/ \E r \in Requests : finish_backup(r) \/ session_end_unfinished(r)

SpecUpgrade == InitSnap /\ [][NextUpgrade]_vars

\* an append request of any kind with any lists on any of the sessions
InitAppend ==
    /\ \E e \in AppendEnvs, kind \in {"dynamic", "fixed"}, wid \in Wids,
          digest_list \in PairLists(Digests), offset_list \in PairLists(Offsets) :
          ap = [ApIdle EXCEPT !.e = e, !.kind = kind, !.wid = wid,
                              !.digest_list = digest_list,
                              !.offset_list = offset_list]
    /\ cs = CsIdle /\ bad = NoBad /\ run = RunIdle /\ ord = OrdIdle
    /\ dl = DlIdle /\ api = ApiIdle /\ igc = IgcIdle /\ dir = DirIdle /\ call = CallInit /\ lk = LkInit
    /\ now = StartTime
    /\ snaps = [t \in BackupTimes |-> IF t = 1 THEN Finished({1}) ELSE NoDir]
    /\ chunks = [d \in Digests |-> 0]
    /\ snap_lock = [t \in BackupTimes |-> NoHolder]
    /\ shared_locks = [h \in Lockers |-> NoLock]
    /\ exclusive = FALSE
    /\ gc_mutex = NoHolder
    /\ last_gc_status = GcStatusDefault
    /\ gc = [g \in GcThreads |-> GcIdle]
    /\ sess = [r \in Requests |-> SessInit(MaxBackupTime)]
    /\ group_exists = TRUE
    /\ owner = [user |-> "alice", token |-> "none"]
    /\ group_lock = NoHolder
    /\ callers = [c \in CallerIds |-> CallerIdle]
    /\ forced = 0
    /\ refused = {}
    /\ group_ret = "none"
    /\ ManifestInit
    /\ CacheInit
    /\ env = EnvIdle

SpecAppend == InitAppend /\ [][append_request]_vars

\* a client that writes fixed images, an empty one among them
NextEmpty ==
    \/ \E name \in ArchiveNames, size \in {0} \cup ImageSizes :
          API_METHOD_CREATE_FIXED_INDEX(name, size)
    \/ \E d \in Digests : upload_dynamic_chunk(d)
    \/ \E wid \in Wids, digest_list \in Lists(Digests), offset_list \in Lists(Offsets) :
          API_METHOD_FIXED_APPEND(wid, digest_list, offset_list)
    \/ \E wid \in Wids, chunk_count \in 0..MaxEntries, size \in {0} \cup CloseSizes,
          csum \in {<<>>} \cup Csums :
          API_METHOD_CLOSE_FIXED_INDEX(wid, chunk_count, size, csum)

SpecEmpty == InitSession /\ [][NextEmpty]_vars

\* a store at rest: nothing but the operation that is looked at moves
InitQuiet == InitCache

\* threads that insert one digest into an empty shard directory
SpecInsert == InitQuiet /\ [][NextInsert]_vars

\* ------------------------------------------------------------------ claims C1 to C5

\* C1: a session that held its chunk store shared lock when a garbage
\* collection computed oldest_writer and whose finish succeeded has, after the
\* sweep of that garbage collection, the chunk file of every digest of its
\* committed index, also of the chunks it took over from the previous snapshot
C1_NoDataLoss ==
    \A r \in Requests, g \in GcThreads :
        (/\ sess[r].pc = "finished"
         /\ r \in gc[g].saw
         /\ gc[g].pc = "idle"
         /\ snaps[sess[r].time].has_index)
        => \A d \in snaps[sess[r].time].index : chunks[d] # NoChunk

\* C2: a chunk that a session inserts after a garbage collection was invoked
\* while it held its shared lock is present as long as the session is active
\* and is present when its finish commits
C2_InsertedChunksSurvive ==
    \A r \in Requests :
        /\ sess[r].pc = "active" => sess[r].ins_after_gc \subseteq ChunkFiles
        /\ sess[r].missing_at_finish = {}

\* C2 witness: the session has finished, and the sweep of a garbage
\* collection that saw its lock came to a chunk it had inserted since
C2_Witness ==
    \E g \in GcThreads :
        /\ sess["r1"].pc = "finished"
        /\ "r1" \in gc[g].saw
        /\ gc[g].met \cap sess["r1"].ins_after_gc # {}
        /\ last_gc_status.removed_chunks > 0

\* C3 as stated: after a garbage collection without concurrent writer the
\* chunk files are exactly the digests the index files reference
C3_ExactlyReferenced ==
    \A g \in GcThreads : (SweepDone(g) /\ gc[g].clean) => ChunkFiles = Referenced

\* C3 amended: after a garbage collection without concurrent writer no chunk
\* that an index file references was removed by the run, and every chunk file
\* that is left has an atime at or above min(oldest_writer, phase1_start)
\* - 24h5m; unreferenced chunks below that cutoff are gone, the others stay
C3_ReferencedOrRecent ==
    \A g \in GcThreads :
        (SweepDone(g) /\ gc[g].clean) =>
            /\ gc[g].removed \cap Referenced = {}
            /\ gc[g].removed \cap ChunkFiles = {}
            /\ \A d \in ChunkFiles :
                 chunks[d] >= Min2(gc[g].oldest_writer, gc[g].phase1_start_time)
                              - (24 * 3600 + 5 * 60)

\* C3 witness: a run without concurrent writer has removed a chunk and has
\* left a chunk that no index references
C3_Witness ==
    \E g \in GcThreads :
        /\ SweepDone(g)
        /\ gc[g].clean
        /\ gc[g].removed # {}
        /\ ChunkFiles \ Referenced # {}

\* C4: garbage_collection passes the smallest lock_time of the shared locks
\* held at its start, or phase1_start when none is held; the sweep removes a
\* chunk file if and only if its atime is below min(oldest_writer,
\* phase1_start) - 24h5m, which is never later than phase1_start - 24h5m
C4_SweepCutoff ==
    [][\A g \in GcThreads :
         /\ (gc[g].pc = "idle" /\ gc'[g].pc = "list") =>
              /\ gc'[g].phase1_start_time = now
              /\ gc'[g].oldest_writer =
                   IF \A h \in Lockers : shared_locks[h] = NoLock THEN now
                   ELSE SetMin({shared_locks[h] : h \in Lockers} \ {NoLock})
         /\ gc[g].pc = "sweep" =>
              LET cutoff == Min2(gc[g].oldest_writer, gc[g].phase1_start_time)
                            - (24 * 3600 + 5 * 60)
              IN /\ cutoff <= gc[g].phase1_start_time - (24 * 3600 + 5 * 60)
                 /\ \A d \in Digests :
                      chunks[d] # NoChunk =>
                        (chunks'[d] = NoChunk <=>
                           /\ gc[g].sweep_pos = d
                           /\ gc'[g].sweep_pos = d + 1
                           /\ chunks[d] < cutoff)
      ]_vars

\* C4 witness: the sweep has removed a chunk and kept another under a cutoff
\* that a shared lock older than phase1_start decides
C4_Witness ==
    \E g \in GcThreads :
        /\ SweepDone(g)
        /\ gc[g].oldest_writer < gc[g].phase1_start_time
        /\ gc[g].removed # {}
        /\ ChunkFiles # {}

\* C5: at most one garbage_collection is in its mark or sweep phase; a call
\* made while gc_mutex is held returns the 'already running' error at once
\* and changes no chunk file, no atime and not last_gc_status
C5_OneGc ==
    [][/\ Cardinality({g \in GcThreads : gc'[g].pc \in {"list", "mark", "sweep"}}) <= 1
       /\ \A g \in GcThreads :
            /\ (gc[g].pc = "idle" /\ gc'[g].pc # "idle") => gc_mutex = NoHolder
            /\ (gc'[g] # gc[g] /\ gc'[g].err = "already running") =>
                 /\ gc_mutex \in GcThreads \ {g}
                 /\ gc'[g].pc = "idle"
                 /\ chunks' = chunks
                 /\ last_gc_status' = last_gc_status
            /\ (gc[g].pc = "idle" /\ gc_mutex # NoHolder /\ gc'[g] # gc[g]) =>
                 gc'[g].err = "already running"
      ]_vars

\* C5 witness: a call was refused while the other thread was sweeping and had
\* removed a chunk
C5_Witness ==
    \E g, h \in GcThreads :
        /\ gc[g].err = "already running"
        /\ gc[h].pc = "sweep"
        /\ gc[h].removed # {}

\* ------------------------------------------------------------------ claims C6 to C10

C7_NewSnapshotIsLatest ==
    [][\A t \in BackupTimes :
         (~snaps[t].exists /\ snaps'[t].exists)
         => \A u \in BackupTimes : snaps[u].exists => u < t
      ]_vars

OwnerOrTokenUser(o, a) ==
    \/ a = o
    \/ (o.token # "none" /\ a.token = "none" /\ a.user = o.user)

\* C9: check_backup_owner succeeds exactly for the owner itself and, when
\* the owner is an API token, for the user of that token; owns_backup gives
\* the same verdict as a boolean; a rejected identity changes no owner file
C9_OwnerCheck ==
    [][/\ \A o \in Authids, a \in Authids :
            check_backup_owner(o, a) <=> OwnerOrTokenUser(o, a)
       /\ ~check_backup_owner([user |-> "alice", token |-> "none"],
                              [user |-> "alice", token |-> "t1"])
       /\ ~check_backup_owner([user |-> "alice", token |-> "t1"],
                              [user |-> "alice", token |-> "t2"])
       /\ ~check_backup_owner([user |-> "alice", token |-> "none"],
                              [user |-> "bob", token |-> "none"])
       /\ check_backup_owner([user |-> "alice", token |-> "t1"],
                             [user |-> "alice", token |-> "none"])
       /\ \A a \in Authids :
            (group_exists /\ owner # NoOwner) =>
               owns_backup(a) = IF OwnerOrTokenUser(owner, a) THEN "true" ELSE "false"
       /\ \A c \in CallerIds :
            (callers[c].pc = "check" /\ callers'[c].pc = "idle") =>
               /\ callers'[c].verdict =
                    IF OwnerOrTokenUser(owner, callers[c].auth)
                    THEN "true" ELSE "false"
               /\ callers'[c].verdict = "false" => owner' = owner
      ]_vars

\* C9 witness: a token of the owning user was rejected for a group that the
\* user owns
C9_Witness ==
    \E c \in CallerIds :
        /\ callers[c].pc = "idle"
        /\ callers[c].verdict = "false"
        /\ callers[c].res = [user |-> "alice", token |-> "none"]
        /\ callers[c].auth = [user |-> "alice", token |-> "t1"]
        /\ owner = callers[c].res

ProtectedSnaps == {t \in BackupTimes : snaps[t].exists /\ snaps[t].protected}

Marks(u, manifest) == Cardinality({i \in 1..Len(manifest) : manifest[i] = u})

\* C12: the calls of update_manifest on one snapshot are serialized by the
\* manifest lock: at most one thread is between lock_manifest and
\* replace_file, the manifest holds the mutation of every call that returned
\* Ok (no lost update), and load_manifest sees a manifest that was committed
C12_ManifestSerialized ==
    /\ Cardinality({u \in UpdaterIds : updaters[u].pc # "idle"}) <= 1
    /\ \A u \in UpdaterIds :
         /\ updaters[u].pc # "idle" => manifest_lock[ManifestSnap] = u
         /\ Marks(u, manifest_file[ManifestSnap]) = updaters[u].done
    /\ Len(manifest_file[ManifestSnap]) =
          updaters["u1"].done + updaters["u2"].done
    /\ mreader.seen \in mreader.committed

\* C12 witness: both threads have updated the manifest, the second one had
\* to wait for the lock, and the reader has seen the manifest in between
C12_Witness ==
    /\ updaters["u1"].done = 1
    /\ updaters["u2"].done = 1
    /\ manifest_file[ManifestSnap] = <<"u1", "u2">>
    /\ mreader.seen = <<"u1">>
    /\ updaters["u1"].pc = "idle"
    /\ updaters["u2"].pc = "idle"

\* C13: lookup_datastore returns the cached instance exactly when the map
\* has an entry whose last_generation is the current generation and whose
\* last_update is less than 60 seconds before now, and otherwise makes a new
\* instance that replaces the entry
C13_CachedIffValid ==
    [][\A l \in LookupIds :
         (lookups[l].pc = "lock" /\ lookups'[l].pc = "idle") =>
            LET valid == /\ datastore_map # NoEntry
                         /\ datastore_map.last_generation = datastore_generation
                         /\ now < datastore_map.last_update + 60
            IN /\ valid <=> (/\ lookups'[l].ret = datastore_map.inst
                             /\ datastore_map' = datastore_map)
               /\ ~valid => (/\ datastore_map'.inst = lookups'[l].ret
                             /\ datastore_map'.inst # datastore_map.inst
                             /\ datastore_map'.last_generation = datastore_generation)
      ]_vars

\* the digests in the index of the writer with this id
writer_digests(e, w) ==
    {e.dynamic_writers[w].index[i].digest : i \in 1..Len(e.dynamic_writers[w].index)}
    \cup ({e.fixed_writers[w].index[i] : i \in 1..Len(e.fixed_writers[w].index)} \ {0})

\* C14: an index writer holds only digests of the chunk registry of the
\* session, that is digests that were uploaded or registered by the download
\* of the previous index; an append of any other digest fails with
\* "no such chunk" and adds nothing
C14_AppendRegistered ==
    \A w \in Wids : writer_digests(env, w) \subseteq registry(env)

\* C14 witness: a registered digest is in an index, and the append of the
\* digest that is not registered was refused
C14_Witness ==
    /\ env.result = "no such chunk"
    /\ registry(env) = {1}
    /\ \E w \in Wids : writer_digests(env, w) = {1}

\* the end of the entry before position i of a dynamic index
previous_end(index, i) == IF i = 1 THEN 0 ELSE index[i - 1].end_offset

\* C15: every entry of a dynamic index writer ends at the end of the entry
\* before it (0 for the first) plus the registered size of its chunk; an
\* append with another offset is refused and adds no entry, so an index only
\* grows by entries that keep this
C15_DynamicOffsets ==
    /\ [](\A w \in Wids :
            LET index == env.dynamic_writers[w].index
            IN \A i \in 1..Len(index) :
                  index[i].end_offset =
                      previous_end(index, i) + env.known_chunks[index[i].digest])
    /\ [][\A w \in Wids :
            (env.dynamic_writers[w] # NoDynamicWriter
                /\ env'.dynamic_writers[w] # NoDynamicWriter) =>
               /\ Len(env'.dynamic_writers[w].index) >= Len(env.dynamic_writers[w].index)
               /\ SubSeq(env'.dynamic_writers[w].index, 1,
                         Len(env.dynamic_writers[w].index))
                      = env.dynamic_writers[w].index]_vars

\* C15 witness: a full chunk was appended to a dynamic index at the offset
\* of its end, and the next append came with an offset that was refused
C15_Witness ==
    /\ env.result = "got strange chunk offset"
    /\ \E w \in Wids :
          /\ Len(env.dynamic_writers[w].index) = 1
          /\ env.dynamic_writers[w].index[1].end_offset = chunk_size
          /\ env.dynamic_writers[w].offset = chunk_size

\* the totals a writer has accumulated, under the name of its index
writer_totals(e, w) ==
    IF e.dynamic_writers[w] # NoDynamicWriter
    THEN [name |-> e.dynamic_writers[w].name,
          chunk_count |-> e.dynamic_writers[w].chunk_count,
          size |-> e.dynamic_writers[w].offset,
          csum |-> index_csum(dynamic_digests(e.dynamic_writers[w].index))]
    ELSE [name |-> e.fixed_writers[w].name,
          chunk_count |-> e.fixed_writers[w].chunk_count,
          size |-> e.fixed_writers[w].size,
          csum |-> index_csum(e.fixed_writers[w].index)]

\* C17: an index file appears under its final name only in a close that
\* succeeds, and close succeeds only for a registered writer whose chunk
\* count, size and checksum are the expected ones; a close that fails makes
\* no file visible, and every visible index file was closed successfully
C17_CloseValidates ==
    /\ [](env.files \subseteq {c.name : c \in env.closed})
    /\ [][\A name \in ArchiveNames :
            (name \in env'.files /\ name \notin env.files) =>
               /\ env'.result = "none"
               /\ \E w \in open_writers(env) :
                     /\ writer_totals(env, w).name = name
                     /\ writer_totals(env, w) \in env'.closed
                     /\ w \notin open_writers(env')]_vars

\* C17 witness: the dynamic index was closed and is visible, the fixed
\* index has every slot written but its close came with a checksum of
\* another digest list and was refused
C17_Witness ==
    /\ env.result = "got unexpected checksum"
    /\ env.files = {"a.didx"}
    /\ \E w \in Wids :
          /\ env.fixed_writers[w].name = "a.fidx"
          /\ \A i \in 1..Len(env.fixed_writers[w].index) :
                env.fixed_writers[w].index[i] # 0

\* C18: the session becomes Finished, and the manifest is written, only in
\* a finish that finds every registered writer closed and every file of the
\* manifest supplied; a finish that fails leaves the session as it is and
\* writes no manifest
C18_FinishComplete ==
    /\ [](snaps[SessionSnap].manifest => env.state = "Finished")
    /\ [][/\ (env'.state = "Finished" /\ env.state # "Finished") =>
               /\ open_writers(env) = {}
               /\ env.manifest.uploaded
               /\ env.manifest.files \subseteq env.files
          /\ (env'.result = "unable to finish backup" /\ env'.result # env.result) =>
               /\ env'.state = env.state
               /\ snaps' = snaps
               /\ manifest_file' = manifest_file]_vars

\* C18 witness: the manifest is uploaded and its file is supplied, but a
\* second writer is still open: finish was refused and the session is Active
C18_Witness ==
    /\ env.result = "unable to finish backup"
    /\ env.state = "Active"
    /\ env.manifest.uploaded
    /\ env.manifest.files \subseteq env.files
    /\ open_writers(env) # {}
    /\ ~snaps[SessionSnap].manifest

C20_TerminalStates ==
    [][env.state # "Active" =>
          /\ env'.state = env.state
          /\ env'.result = "none" => env.result = "none"
          /\ env'.dynamic_writers = env.dynamic_writers
          /\ env'.fixed_writers = env.fixed_writers
          /\ env'.known_chunks = env.known_chunks
          /\ env'.file_names = env.file_names
          /\ env'.files = env.files
          /\ env'.manifest = env.manifest
          /\ chunks' = chunks
          /\ manifest_file' = manifest_file
          /\ snaps' = [snaps EXCEPT ![SessionSnap].protected =
                                       snaps'[SessionSnap].protected]]_vars

\* C20 witness: after finish had succeeded, with the connection still
\* open, a request was refused because the backup is finished
C20_Witness ==
    /\ env.state = "Finished"
    /\ env.task = "running"
    /\ env.result = "backup already marked as finished"
    /\ snaps[SessionSnap].manifest

\* ------------------------------------------------------------------ claims C21 to C30

\* the archive name of the writer registered under this id, "none" if free
writer_name(e, w) ==
    IF e.dynamic_writers[w] # NoDynamicWriter THEN e.dynamic_writers[w].name
    ELSE e.fixed_writers[w].name

C22_InsertIdempotent ==
    /\ [](/\ cs.file # NoFile => whole(cs.file)
          /\ \A f \in cs.seen : whole(f)
          /\ \A i \in Inserters :
                /\ (cs.pc[i] = "done" \/ cs.calls[i] > 0) => cs.file # NoFile
                /\ cs.pc[i] \in {"idle", "done"} => cs.tmp[i] = NoFile)
    /\ [][\A i \in Inserters :
            /\ (cs.pc[i] = "idle" /\ cs.file # NoFile /\ cs'.pc[i] # "idle") =>
                  /\ cs'.pc[i] = "done"
                  /\ cs'.existed[i]
                  /\ cs'.file = cs.file
                  /\ cs'.tmp = cs.tmp
            /\ (cs.pc[i] = "idle" /\ cs'.pc[i] = "done") => cs.file # NoFile]_vars

\* two threads raced and both renamed their temp file; a later call of one of
\* them found the file, and a reader saw both blobs
C22_Witness ==
    /\ cs.calls["p"] = 1 /\ cs.pc["p"] = "done" /\ cs.existed["p"]
    /\ cs.calls["q"] = 1 /\ cs.pc["q"] = "idle" /\ ~cs.existed["q"]
    /\ Cardinality(cs.seen) = 2

C25_ExclusiveOnlyForSweep ==
    \A g \in GcThreads : gc[g].pc \in {"list", "mark"} => ~exclusive

walk_tolerated(walk) ==
    \/ walk = NoWalkError
    \/ /\ walk.kind = "PermissionDenied" /\ walk.has_path
       /\ walk.depth = 1 /\ walk.lost_found

\* C29: list_images returns the index files of every snapshot, protected
\* ones included; when phase 1 is through, every image of the list that still
\* exists was opened and each of its chunks that exists has an atime of this
\* run, and index_file_count is the number of images opened. A round of
\* index_mark_used_chunks touches the chunk if it exists; if not it goes on
\* without error, counts a warning and touches those of <digest>.0.bad ..
\* <digest>.9.bad that exist and nothing else. Opening an image adds one to
\* index_file_count and index_bytes() to index_data_bytes.
C29_MarkPhase ==
    /\ [](run.pc = "sweep" =>
            /\ run.status.index_file_count = Cardinality(run.opened)
            /\ \A t \in run.listed :
                  snaps[t].exists =>
                     /\ t \in run.opened
                     /\ \A d \in snaps[t].index :
                           chunks[d] # NoChunk => chunks[d] >= run.phase1_start_time)
    /\ [][/\ (run.pc = "list" /\ run'.pc \in {"mark", "sweep"}) =>
                run'.listed = {t \in BackupTimes : snaps[t].exists /\ snaps[t].has_index}
          /\ (run.pc = "index" /\ run'.todo # run.todo) =>
                LET d == SetMin(run.todo)
                IN /\ run'.todo = run.todo \ {d}
                   /\ run'.err = "none"
                   /\ \A e \in Digests \ {d} : chunks'[e] = chunks[e] /\ bad'[e] = bad[e]
                   /\ IF chunks[d] # NoChunk
                      THEN /\ chunks'[d] = now
                           /\ bad' = bad
                           /\ run'.warnings = run.warnings
                      ELSE /\ chunks' = chunks
                           /\ run'.warnings = run.warnings + 1
                           /\ \A i \in BadExts :
                                 bad'[d][i] = IF bad[d][i] = NoChunk THEN NoChunk ELSE now
          /\ (run.pc = "mark" /\ run'.opened # run.opened) =>
                LET img == SetMin(run.image_list)
                IN /\ run'.opened = run.opened \cup {img}
                   /\ run'.status.index_file_count = run.status.index_file_count + 1
                   /\ run'.status.index_data_bytes =
                         run.status.index_data_bytes + index_bytes(snaps[img].index)]_vars

\* phase 1 is through with two images; a chunk of the protected snapshot is
\* missing, and its files .0.bad and .9.bad were touched a second after the
\* run began
C29_Witness ==
    /\ run.pc = "sweep"
    /\ run.opened = {1, 2}
    /\ run.warnings = 2
    /\ chunks[2] = NoChunk
    /\ is_protected(1)
    /\ bad[2][0] = now /\ bad[2][9] = now
    /\ now > run.phase1_start_time
    /\ run.status.index_data_bytes = 3 * chunk_size

\* C30: the sweep starts only when the loop over the list of list_images is
\* through, every image of the list was opened or had vanished, and no error
\* was met; a chunk is removed only then. A run that fails - the exclusive
\* lock is held, the walk met an error other than permission denied on a
\* top-level lost+found, an index could not be opened or read - returns its
\* error, has removed no chunk and removes none.
C30_SweepAfterMark ==
    /\ [](run.pc \in {"mark", "index", "sweep"} => walk_tolerated(run.walk))
    /\ [][/\ (run'.pc = "sweep" /\ run.pc # "sweep") =>
                /\ run'.image_list = {} /\ run'.todo = {}
                /\ run'.err = "none"
                /\ \A t \in run'.listed :
                      t \in run'.opened \/ ~(snaps[t].exists /\ snaps[t].has_index)
          /\ (\E d \in Digests : chunks[d] # NoChunk /\ chunks'[d] = NoChunk) =>
                /\ run.pc = "sweep" /\ run.image_list = {} /\ run.todo = {}
                /\ run.err = "none"
          /\ (run'.last = "failed" /\ (run.last # "failed" \/ run'.runs # run.runs)) =>
                /\ run'.pc = "idle"
                /\ run'.err # "none"
                /\ chunks' = chunks
                /\ last_gc_status' = last_gc_status
          /\ (run'.last = "failed" /\ run.last = "running") =>
                /\ run.status.removed_chunks = 0
                /\ gc_mutex' = NoHolder /\ ~exclusive'
          /\ (run.pc = "idle" /\ run'.runs # run.runs /\ exclusive) =>
                run'.last = "failed" /\ run'.err = "exclusive lock"]_vars

\* the second image of the list could not be read after the first had been
\* marked: the run failed, and the chunk that no image refers to and that is
\* older than the cutoff is still there
C30_Witness ==
    /\ run.last = "failed"
    /\ run.err = "can't read index"
    /\ run.opened = {1}
    /\ run.status.removed_chunks = 0
    /\ chunks[1] = 0
    /\ snaps[2] = NoDir

\* C26: get_chunks_in_order returns one pair (position, inode) for every
\* position of the index whose digest skip_chunk does not reject, and no other
\* pair; with chunk_order Inode the inode numbers of the list do not decrease
\* and no chunk that could be stat'ed comes after one that could not; with
\* chunk_order None the positions increase; if check_abort fails at a position
\* of the index the call returns the error and no list.
C26_ChunksInOrder ==
    ord.called =>
       IF order_aborted(ord) THEN ~ord.ok /\ ord.list = <<>>
       ELSE LET wanted == {pos \in 0..(Len(ord.index) - 1) :
                              ord.index[pos + 1] \notin ord.skip}
                list == ord.list
                failed(i) == ord.stat[ord.index[list[i][1] + 1]] = StatErr
            IN /\ ord.ok
               /\ {list[i][1] : i \in 1..Len(list)} = wanted
               /\ Len(list) = Cardinality(wanted)
               /\ ord.chunk_order = "Inode" =>
                     /\ \A i \in 1..Len(list) :
                           ~failed(i) => list[i][2] = ord.stat[ord.index[list[i][1] + 1]]
                     /\ \A i, j \in 1..Len(list) :
                           i < j => /\ list[i][2] <= list[j][2]
                                    /\ ~(failed(i) /\ ~failed(j))
               /\ ord.chunk_order = "None" =>
                     \A i, j \in 1..Len(list) : i < j => list[i][1] < list[j][1]

\* three positions, none skipped; the second could not be stat'ed and comes
\* last, and the sort has put the third before the first
C26_Witness ==
    /\ ord.called /\ ord.ok
    /\ ord.chunk_order = "Inode"
    /\ ord.index = <<1, 2, 1>> /\ ord.skip = {} /\ ord.stat[2] = StatErr
    /\ ord.stat[1] = 2
    /\ ord.list = <<<<2, 2>>, <<0, 2>>, <<1, u64_MAX>>>>

\* C27: an empty fixed image can be written through the requests of a backup
\* client: in an Active session create_fixed_index with size 0 for a new name
\* .fidx registers a writer with no slot, and close of that writer with
\* chunk_count 0, size 0 and the checksum of the empty digest list commits the
\* index.
C27_EmptyFixedImage ==
    [][/\ (/\ ensure_unfinished(env)
           /\ "a.fidx" \notin env.file_names
           /\ next_uid(env) \in Wids
           /\ API_METHOD_CREATE_FIXED_INDEX("a.fidx", 0)) =>
              /\ env'.result = "none"
              /\ env'.fixed_writers[next_uid(env)] =
                    [name |-> "a.fidx", size |-> 0, chunk_count |-> 0, index |-> <<>>]
       /\ \A wid \in Wids :
             (/\ ensure_unfinished(env)
              /\ env.fixed_writers[wid] # NoFixedWriter
              /\ env.fixed_writers[wid].size = 0
              /\ API_METHOD_CLOSE_FIXED_INDEX(wid, 0, 0, index_csum(<<>>))) =>
                 /\ env'.result = "none"
                 /\ env.fixed_writers[wid].name \in env'.files]_vars

\* ------------------------------------------------------------------ claims C31 to C40

\* the sizes the registry holds for the digests of a list, added up
RECURSIVE registered_sum(_, _)
registered_sum(e, digests) ==
    IF digests = <<>> THEN 0
    ELSE e.known_chunks[Head(digests)] + registered_sum(e, Tail(digests))

\* C31: a download of the index of the last backup, in a session that is not
\* finished, answers with the digests of that index and leaves every digest
\* of it registered with the length of its chunk: for position pos of a fixed
\* index min(image_size, (pos+1)*chunk_size) - pos*chunk_size, for a dynamic
\* index end - start; the registered sizes of all positions add up to the
\* size of the index, and no other digest changes in the registry. Without a
\* last backup, or without an index of that name in it, the response is empty
\* and the registry is as before.
C31_PreviousIndexRegistered ==
    dl.calls > 0 =>
       LET fixed == dl.kind = "fixed"
           file == IF fixed THEN dl.fixed ELSE dl.dynamic
           n == Len(file.index)
           digest(i) == IF fixed THEN file.index[i] ELSE file.index[i].digest
           len(i) == IF fixed
                     THEN Min2(file.size, i * chunk_size) - (i - 1) * chunk_size
                     ELSE file.index[i].end_offset - previous_end(file.index, i)
           total == IF fixed THEN file.size
                    ELSE IF n = 0 THEN 0 ELSE file.index[n].end_offset
           right_ext == ends_with(dl.name, IF fixed THEN ".fidx" ELSE ".didx")
           has == env.last_backup # 0 /\ file.exists
       IN /\ (right_ext /\ ~has) =>
                /\ dl.response = "empty" /\ dl.body = <<>>
                /\ env.known_chunks = dl.before
          /\ (right_ext /\ has /\ ensure_unfinished(env)) =>
                /\ dl.response = "stream"
                /\ dl.body = [i \in 1..n |-> digest(i)]
                /\ \A i \in 1..n : env.known_chunks[digest(i)] = len(i)
                /\ registered_sum(env, dl.body) = total
                /\ \A d \in Digests \ {digest(i) : i \in 1..n} :
                      env.known_chunks[d] = dl.before[d]

\* the fixed index of the last backup has a full chunk and a last chunk of
\* one byte; both were registered with another size before the download
C31_Witness ==
    /\ dl.calls = 1 /\ dl.kind = "fixed" /\ dl.response = "stream"
    /\ dl.fixed.size = chunk_size + 1 /\ dl.body = <<1, 2>>
    /\ dl.before = [d \in Digests |-> IF d = 1 THEN 1 ELSE 0]
    /\ env.known_chunks = [d \in Digests |-> IF d = 1 THEN chunk_size ELSE 1]

\* C32: update_protection(dir, protection) that gets the lock of the snapshot
\* directory returns Ok, leaves the marker .protected present exactly when
\* protection is true, whatever it was before, and changes nothing else of
\* the snapshot; when the directory is locked by someone else, or does not
\* exist, it returns an error and changes nothing.
C32_UpdateProtection ==
    [][\A t \in BackupTimes, protection \in BOOLEAN :
          DataStore_update_protection(t, protection) =>
             IF snaps[t].exists /\ snap_lock[t] = NoHolder
             THEN /\ api'.ok
                  /\ snaps'[t].protected = protection
                  /\ snaps' = [snaps EXCEPT ![t].protected = protection]
                  /\ snap_lock' = snap_lock
             ELSE /\ ~api'.ok
                  /\ snaps' = snaps]_vars

\* the second of two calls update_protection(dir, true) on a snapshot: the
\* marker was there already and the call succeeded
C32_Witness ==
    /\ api.n = 2 /\ api.op = "update_protection" /\ api.ok /\ api.protection
    /\ api.before.protected /\ api.before.manifest
    /\ snaps[api.time] = api.before

\* C33: when every call of create_locked_backup_group has returned, a group
\* directory that exists holds an owner file
C33_GroupHasOwner ==
    ((\A c \in CallerIds : callers[c].pc = "idle") /\ group_exists)
       => owner # NoOwner

\* the threads whose garbage collection holds the exclusive lock of the
\* chunk store: phase 1, phase 2 or the store of the status
GcRunning == {g \in GcThreads : igc.task[g].pc \in {"mark", "sweep", "done"}}

C35_RefusedOnlyByGc ==
    /\ [][\A g \in GcThreads :
            (/\ instance_gc_try_lock(g)
             /\ igc'.task[g].err = "already running/locked")
            => GcHolders(lookups[LookupOf(g)].ret) # {}
      ]_vars
    /\ []((igc.query.calls > 0 /\ igc.query.ret) => igc.query.held_by \in GcThreads)

\* C36: cleanup_backup_dir removes only regular files that are neither
\* listed in the manifest nor the manifest blob nor the client log blob, and
\* a marker .protected that exists before the call exists after it
C36_CleanupKeepsProtection ==
    dir.calls > 0 =>
       /\ \A name \in EntryNames :
             dir.entries[name] # dir.before[name] =>
                /\ dir.before[name] = "File" /\ dir.entries[name] = "none"
                /\ name \notin dir.files \cup {MANIFEST_BLOB_NAME, CLIENT_LOG_BLOB_NAME}
       /\ dir.before[".protected"] = "File" => dir.entries[".protected"] = "File"

\* C37: a snapshot directory without manifest belongs to an upgrade request
\* that is still being processed or to a session that is running; when the
\* requests for it have ended it is sealed or removed
C37_NoOrphanSnapshot ==
    \A t \in BackupTimes :
        (snaps[t].exists /\ ~snaps[t].manifest) =>
           \E r \in Requests :
              /\ sess[r].time = t
              /\ sess[r].pc \in {"init", "mkdir", "lock", "bail", "active"}

\* the end of the dynamic writer after the first k pairs of a request
end_after(data, offset_list, k) == IF k = 0 THEN data.offset ELSE offset_list[k]

\* pair i of the request is taken after the pairs before it: the session is
\* not finished, the writer is registered, the digest is registered, and the
\* offset is the one the writer expects
pair_ok(i) ==
    LET e == ap.e
        known == e.known_chunks[ap.digest_list[i]]
    IN /\ ensure_unfinished(e)
       /\ known # 0
       /\ IF ap.kind = "dynamic"
          THEN /\ e.dynamic_writers[ap.wid] # NoDynamicWriter
               /\ ap.offset_list[i] =
                     end_after(e.dynamic_writers[ap.wid], ap.offset_list, i - 1) + known
          ELSE /\ e.fixed_writers[ap.wid] # NoFixedWriter
               /\ ap.offset_list[i] % chunk_size = 0
               /\ ap.offset_list[i] \div chunk_size < Len(e.fixed_writers[ap.wid].index)

\* the slots of a fixed writer after the first k pairs of the request
fixed_slots_after(index, k) ==
    [j \in 1..Len(index) |->
        LET hits == {i \in 1..k : ap.offset_list[i] \div chunk_size + 1 = j}
        IN IF hits = {} THEN index[j] ELSE ap.digest_list[SetMax(hits)]]

\* the session after the first k pairs of the request
applied(k) ==
    IF k = 0 THEN ap.e
    ELSE IF ap.kind = "dynamic"
    THEN [ap.e EXCEPT !.dynamic_writers[ap.wid] =
            [@ EXCEPT !.offset = ap.offset_list[k],
                      !.chunk_count = @ + k,
                      !.index = @ \o [i \in 1..k |->
                                        [end_offset |-> ap.offset_list[i],
                                         digest |-> ap.digest_list[i]]]]]
    ELSE [ap.e EXCEPT !.fixed_writers[ap.wid] =
            [@ EXCEPT !.chunk_count = @ + k,
                      !.index = fixed_slots_after(@, k)]]

\* C38: an append request whose lists have the same length applies its pairs
\* in list order up to the first pair that fails: with k the number of pairs
\* before that pair, the session after the request is the session before it
\* with the first k pairs appended to the writer and nothing else changed,
\* and the request returns an error unless every pair was applied. A request
\* whose lists differ in length returns an error and applies nothing.
C38_AppendStopsAtFirstError ==
    ap.called =>
       LET n == Len(ap.digest_list)
       IN IF Len(ap.offset_list) # n
          THEN ap.err # "none" /\ ap.after = ap.e
          ELSE \E k \in 0..n :
                  /\ \A i \in 1..k : pair_ok(i)
                  /\ k < n => ~pair_ok(k + 1)
                  /\ (ap.err = "none") = (k = n)
                  /\ ap.after = applied(k)

\* a request of three pairs on a new dynamic writer: the first pair was
\* appended, the second has an offset the writer rejects, the third would
\* have been taken after the first
C38_Witness ==
    /\ ap.called /\ ap.kind = "dynamic" /\ ap.wid = 1
    /\ ap.digest_list = <<2, 1, 1>>
    /\ ap.offset_list = <<1, 0, chunk_size + 1>>
    /\ ap.e.dynamic_writers[1].index = <<>>
    /\ ap.err = "got strange chunk offset"
    /\ ap.after.dynamic_writers[1].index = <<[end_offset |-> 1, digest |-> 2]>>

\* the sessions that write snapshot t
Writing(t) == {r \in Requests : sess[r].pc = "active" /\ sess[r].time = t}

\* the calls that are between their lock and their return on snapshot t
Holding(t) == {a \in ApiThreads : call[a].pc # "idle" /\ call[a].time = t}

InCall(t) == lk.th[t].pc \in {"lock", "wait", "work"}

\* C40: no operation waits forever for a lock. A call that is in progress
\* returns, or (the upgrade request) has its session started, whatever the
\* other threads, the client of the session and the other process do; a
\* try-lock that finds its lock held returns the error in the same step; a
\* lock_manifest that gives up returns an error and leaves the manifest as it
\* was.
C40_EveryCallReturns ==
    /\ \A t \in OpThreads : InCall(t) ~> ~InCall(t)
    /\ [][/\ \A t \in OpThreads :
                (op_lock(t) /\ ~can_lock(t) /\ NextLock(t).mode # "timed")
                => /\ lk'.th[t].pc = "idle" /\ lk'.th[t].ret = "err"
                   /\ lk'.held = dropped(t)
          /\ \A t \in OpThreads :
                op_wait_timeout(t)
                => /\ lk'.th[t].pc = "idle" /\ lk'.th[t].ret = "err"
                   /\ manifest_file' = manifest_file]_vars

\* the other process holds the manifest lock; remove_backup_dir, which holds
\* the snapshot lock, has given up waiting and returned its error;
\* update_manifest waits; a session is running and garbage_collection was
\* refused the chunk store
C40_Witness ==
    /\ lk.held["manifest"] = {Extern}
    /\ lk.th["remove_backup_dir"].ret = "err" /\ lk.th["remove_backup_dir"].pc = "idle"
    /\ lk.th["update_manifest"].pc = "wait"
    /\ lk.th["backup"].pc = "session"
    /\ lk.th["garbage_collection"].ret = "err"
    /\ lk.held["gc_mutex"] = {}

====
